---- MODULE Spec2Model ----
(***************************************************************************)
(* A model of the gossa SSA interpreter (github.com/goplus/gossa).         *)
(*                                                                         *)
(* Spec      the frame, call, defer, panic and recover machinery of one    *)
(*           goroutine driven by Interp.Run: frame.run, frame.runDefers,   *)
(*           frame.runDefer, doRecover, the call paths and os.Exit.        *)
(*                                                                         *)
(* SpecOverride  Context.SetOverrideFunction and ClearOverrideFunction with *)
(*           the program of TestOverrideFunction run between them.         *)
(* SpecAlloc the stack variant of the Alloc instruction with the frame     *)
(*           pool of Function.allocFrame (program of TestOpAlloc).         *)
(* SpecMap   MakeMap, MapUpdate, Lookup and delete on one map, with plain  *)
(*           keys and with struct keys holding a blank field.              *)
(* SpecSelect  the Select instruction over buffered channels.              *)
(* SpecPipe  a sender goroutine and main over one buffered channel: Go,    *)
(*           Send, receive with comma-ok, close.                           *)
(* SpecAssert  typeAssert, the TypeAssert instruction.                     *)
(* SpecCmp   opEQL with the nil constant as an operand.                    *)
(* SpecRunner  the runners Interp.Run, Context.Run, RunFile, RunPkg and    *)
(*           TestPkg.                                                      *)
(* SpecPrint the builtins print and println with Context.SetPrintOutput.   *)
(* SpecReg   Function.regIndex and the Registers of the frames.            *)
(* SpecPhi   Phi, Jump and If in a function with a loop.                   *)
(* SpecDispatch  one interface method call site run by two goroutines.     *)
(* SpecCall  Interp.callFunctionByStack and the Return instruction.        *)
(* SpecNoCode  calls of functions and methods that have no code.           *)
(* SpecUnop  unop: the unary operators -, ^ and !.                         *)
(* SpecBinop  the binary operators on integers, opADD to opSHR.            *)
(* SpecSlice  the Slice and MakeSlice instructions.                        *)
(* SpecGo  the Go instruction and the goroutine counter.                   *)
(* SpecPool  the frame pool of Function.allocFrame and deleteFrame with    *)
(*           two goroutines, runDefers and Interp.tryDeferFrame.           *)
(*                                                                         *)
(* The interpreted program is an input: every step of a frame executes an  *)
(* instruction chosen from the instructions an SSA function may hold at    *)
(* that point, so that every program within the bounds is explored.  The   *)
(* interpreter runs with Mode 0 (recover enabled, as NewContext(0) in the  *)
(* tests).                                                                 *)
(***************************************************************************)
EXTENDS Integers, Sequences, FiniteSets, TLC

VARIABLES
    frames,      \* every frame allocated so far, by id (a *frame); never freed
    gostack,     \* the host call chain of the goroutine, innermost last
    raise,       \* the host panic that is unwinding the chain, or NoPanic
    deferMap,    \* Interp.deferMap[goid]: a frame id, 0 when absent
    deferCount,  \* Interp.deferCount
    exited,      \* Interp.exited
    exitCode,    \* result of Interp.Run
    err,         \* result of Interp.Run
    runDone,     \* Interp.Run has returned
    steps,       \* instructions executed so far (bounded by MaxSteps)
    rlog,        \* history: the last recover() executed
    hist,        \* history: panics, recoveries and exits of the program
    override,    \* Context.override: function name -> reflect.Value
    lastSet,     \* history: the last Set/ClearOverrideFunction on each name
    orun,        \* the run of the test program of TestOverrideFunction
    ctxOps,      \* calls of the Context made so far
    heap,        \* boxes made by reflect.New for Alloc: box id -> value
    amain,       \* the frame of main of the program of TestOpAlloc
    acall,       \* the frame of the called method, <<>> when none
    afn,         \* the Function of the called method: used, cached, pool
    mkind,       \* key type of the map: "plain" (int), "blank" (struct{a int; _ int})
    m,           \* the map made by reflect.MakeMap: full key -> value or Absent
    gomap,       \* history: the entries by class of keys that are equal in Go
    mlog,        \* history: the last comma-ok lookup and what Go yields for it
    mops,        \* map instructions executed so far
    chans,       \* the channels: buffer and closed flag
    sel,         \* the ssa.Select instruction being executed and its result
    chanOps,     \* channel operations of the other goroutines so far
    pipe,        \* the buffered channel of the sender and the receiver (a reflect chan)
    sender,      \* the goroutine started by the Go instruction: position, values sent
    receiver,    \* main, the receiving goroutine: position, values received, last receive
    goroutines,  \* Interp.goroutines, the goroutine counter
    tassert,     \* the TypeAssert instruction last executed: operands and outcome
    nasserts,    \* TypeAssert instructions executed so far
    cmp,         \* the BinOp instruction (== or != with the nil constant) last executed
    ncmps,       \* comparisons executed so far
    runner,      \* a run started by the host API: entry, program, position, results
    out,         \* Context.output, its buffer, os.Stdout and CapturedOutput
    nprints,     \* print and println calls executed so far
    istack,      \* Interp.stack and Interp.stackIndex, the static stack
    pfns,        \* the Functions being compiled: stackIndex and nstack
    rframes,     \* the frame of each Function that runs: its stack
    rhist,       \* history: registers first returned, the last regIndex call, the last read
    rsteps,      \* regIndex calls and frame steps so far
    phiEdges,    \* the Registers ie of each Phi as makeInstr compiled them, <<>> before
    pfr,         \* the frame of the loop function: pred, block, pc and its registers
    pentry,      \* history: the registers at the moment control entered pfr.block
    ploops,      \* times the If of the loop header took its first successor
    fns,         \* the Functions f (with a Defer) and k (without): used, cached, pool
    callForPool, \* Context.callForPool
    pfrs,        \* every frame made so far, by id, with whose it is as history
    gors,        \* the goroutines: host call chain, panic in flight, status
    pdeferMap,   \* Interp.deferMap: goroutine id -> frame id, 0 when absent
    pdeferCount, \* Interp.deferCount
    plog,        \* history: activations started, the last frame handed out, the last tryDeferFrame
    psteps,      \* instructions executed so far
    site,        \* the variables ext and found that the step closure of one call site captures
    callers,     \* the goroutines executing the call site: position, receiver, last dispatch
    cfns,        \* per Function of the call program: used, cached and the frames in its pool
    csite,       \* the call instruction of the caller: its callee frame and destination register
    nocode,      \* the program of the no-code calls: its frame, its panic and the result of Interp.Run
    unopd,       \* the UnOp instruction last executed: operator, operand and result
    nunops,      \* UnOp instructions executed
    binopd,      \* the BinOp instruction last executed: operator, operands and result
    nbinops,     \* BinOp instructions executed
    sliced,      \* the Slice instruction last executed: operand, indexes and outcome
    made,        \* the MakeSlice instruction last executed: len, cap and outcome
    nslices,     \* Slice and MakeSlice instructions executed
    gor,         \* the spawned goroutines: who spawned each and how far it is
    died         \* the process has died of a panic no goroutine recovered

deferVars == <<frames, gostack, raise, deferMap, deferCount, exited,
               exitCode, err, runDone, steps, rlog, hist>>

overrideVars == <<override, lastSet, orun, ctxOps>>

allocVars == <<heap, amain, acall, afn>>

mapVars == <<mkind, m, gomap, mlog, mops>>

selectVars == <<chans, sel, chanOps>>

pipeVars == <<pipe, sender, receiver, goroutines>>

assertVars == <<tassert, nasserts>>

cmpVars == <<cmp, ncmps>>

runnerVars == <<runner>>

printVars == <<out, nprints>>

regVars == <<istack, pfns, rframes, rhist, rsteps>>

phiVars == <<phiEdges, pfr, pentry, ploops>>

poolVars == <<fns, callForPool, pfrs, gors, pdeferMap, pdeferCount, plog, psteps>>

dispatchVars == <<site, callers>>

callVars == <<cfns, csite>>

noCodeVars == <<nocode>>

unopVars == <<unopd, nunops>>

binopVars == <<binopd, nbinops>>

sliceVars == <<sliced, made, nslices>>

goVars == <<gor, died>>

vars == <<deferVars, overrideVars, allocVars, mapVars, selectVars, pipeVars,
          assertVars, cmpVars, runnerVars, printVars, regVars,
          phiVars,
          poolVars,
          dispatchVars,
          callVars,
          noCodeVars,
          unopVars,
          binopVars,
          sliceVars,
          goVars>>

(* The variables each specification leaves alone *)
notDeferVars == <<overrideVars, allocVars, mapVars, selectVars, pipeVars,
                  assertVars, cmpVars, runnerVars, printVars, regVars,
                  phiVars,
                  poolVars,
                  dispatchVars,
                  callVars,
                  noCodeVars,
                  unopVars,
                  binopVars,
                  sliceVars,
                  goVars>>
notOverrideVars == <<deferVars, allocVars, mapVars, selectVars, pipeVars,
                     assertVars, cmpVars, runnerVars, printVars, regVars,
                     phiVars,
                     poolVars,
                     dispatchVars,
                     callVars,
                     noCodeVars,
                     unopVars,
                     binopVars,
                     sliceVars,
                     goVars>>
notAllocVars == <<deferVars, overrideVars, mapVars, selectVars, pipeVars,
                  assertVars, cmpVars, runnerVars, printVars, regVars,
                  phiVars,
                  poolVars,
                  dispatchVars,
                  callVars,
                  noCodeVars,
                  unopVars,
                  binopVars,
                  sliceVars,
                  goVars>>
notMapVars == <<deferVars, overrideVars, allocVars, selectVars, pipeVars,
                assertVars, cmpVars, runnerVars, printVars, regVars,
                phiVars,
                poolVars,
                dispatchVars,
                callVars,
                noCodeVars,
                unopVars,
                binopVars,
                sliceVars,
                goVars>>
notSelectVars == <<deferVars, overrideVars, allocVars, mapVars, pipeVars,
                   assertVars, cmpVars, runnerVars, printVars, regVars,
                   phiVars,
                   poolVars,
                   dispatchVars,
                   callVars,
                   noCodeVars,
                   unopVars,
                   binopVars,
                   sliceVars,
                   goVars>>
notPipeVars == <<deferVars, overrideVars, allocVars, mapVars, selectVars,
                 assertVars, cmpVars, runnerVars, printVars, regVars,
                 phiVars,
                 poolVars,
                 dispatchVars,
                 callVars,
                 noCodeVars,
                 unopVars,
                 binopVars,
                 sliceVars,
                 goVars>>
notAssertVars == <<deferVars, overrideVars, allocVars, mapVars, selectVars,
                   pipeVars, cmpVars, runnerVars, printVars, regVars,
                   phiVars,
                   poolVars,
                   dispatchVars,
                   callVars,
                   noCodeVars,
                   unopVars,
                   binopVars,
                   sliceVars,
                   goVars>>
notCmpVars == <<deferVars, overrideVars, allocVars, mapVars, selectVars,
                pipeVars, assertVars, runnerVars, printVars, regVars,
                phiVars,
                poolVars,
                dispatchVars,
                callVars,
                noCodeVars,
                unopVars,
                binopVars,
                sliceVars,
                goVars>>
notRunnerVars == <<deferVars, overrideVars, allocVars, mapVars, selectVars,
                   pipeVars, assertVars, cmpVars, printVars, regVars,
                   phiVars,
                   poolVars,
                   dispatchVars,
                   callVars,
                   noCodeVars,
                   unopVars,
                   binopVars,
                   sliceVars,
                   goVars>>
notPrintVars == <<deferVars, overrideVars, allocVars, mapVars, selectVars,
                  pipeVars, assertVars, cmpVars, runnerVars, regVars,
                  phiVars,
                  poolVars,
                  dispatchVars,
                  callVars,
                  noCodeVars,
                  unopVars,
                  binopVars,
                  sliceVars,
                  goVars>>
notRegVars == <<deferVars, overrideVars, allocVars, mapVars, selectVars,
                pipeVars, assertVars, cmpVars, runnerVars, printVars,
                phiVars,
                poolVars,
                dispatchVars,
                callVars,
                noCodeVars,
                unopVars,
                binopVars,
                sliceVars,
                goVars>>
notPhiVars == <<deferVars,
                overrideVars,
                allocVars,
                mapVars,
                selectVars,
                pipeVars,
                assertVars,
                cmpVars,
                runnerVars,
                printVars,
                regVars,
                poolVars,
                dispatchVars,
                callVars,
                noCodeVars,
                unopVars,
                binopVars,
                sliceVars,
                goVars>>
notPoolVars == <<deferVars,
                 overrideVars,
                 allocVars,
                 mapVars,
                 selectVars,
                 pipeVars,
                 assertVars,
                 cmpVars,
                 runnerVars,
                 printVars,
                 regVars,
                 phiVars,
                 dispatchVars,
                 callVars,
                 noCodeVars,
                 unopVars,
                 binopVars,
                 sliceVars,
                 goVars>>
notDispatchVars == <<deferVars,
                     overrideVars,
                     allocVars,
                     mapVars,
                     selectVars,
                     pipeVars,
                     assertVars,
                     cmpVars,
                     runnerVars,
                     printVars,
                     regVars,
                     phiVars,
                     poolVars,
                     callVars,
                     noCodeVars,
                     unopVars,
                     binopVars,
                     sliceVars,
                     goVars>>
notCallVars == <<deferVars,
                 overrideVars,
                 allocVars,
                 mapVars,
                 selectVars,
                 pipeVars,
                 assertVars,
                 cmpVars,
                 runnerVars,
                 printVars,
                 regVars,
                 phiVars,
                 poolVars,
                 dispatchVars,
                 noCodeVars,
                 unopVars,
                 binopVars,
                 sliceVars,
                 goVars>>
notNoCodeVars == <<deferVars,
                   overrideVars,
                   allocVars,
                   mapVars,
                   selectVars,
                   pipeVars,
                   assertVars,
                   cmpVars,
                   runnerVars,
                   printVars,
                   regVars,
                   phiVars,
                   poolVars,
                   dispatchVars,
                   callVars,
                   unopVars,
                   binopVars,
                   sliceVars,
                   goVars>>
notUnopVars == <<deferVars,
                 overrideVars,
                 allocVars,
                 mapVars,
                 selectVars,
                 pipeVars,
                 assertVars,
                 cmpVars,
                 runnerVars,
                 printVars,
                 regVars,
                 phiVars,
                 poolVars,
                 dispatchVars,
                 callVars,
                 noCodeVars,
                 binopVars,
                 sliceVars,
                 goVars>>
notBinopVars == <<deferVars,
                  overrideVars,
                  allocVars,
                  mapVars,
                  selectVars,
                  pipeVars,
                  assertVars,
                  cmpVars,
                  runnerVars,
                  printVars,
                  regVars,
                  phiVars,
                  poolVars,
                  dispatchVars,
                  callVars,
                  noCodeVars,
                  unopVars,
                  sliceVars,
                  goVars>>
notSliceVars == <<deferVars,
                  overrideVars,
                  allocVars,
                  mapVars,
                  selectVars,
                  pipeVars,
                  assertVars,
                  cmpVars,
                  runnerVars,
                  printVars,
                  regVars,
                  phiVars,
                  poolVars,
                  dispatchVars,
                  callVars,
                  noCodeVars,
                  unopVars,
                  binopVars,
                  goVars>>
(* the Go instruction shares the goroutine counter with the channel program *)
notGoVars == <<deferVars,
               overrideVars,
               allocVars,
               mapVars,
               selectVars,
               pipe, sender, receiver,
               assertVars,
               cmpVars,
               runnerVars,
               printVars,
               regVars,
               phiVars,
               poolVars,
               dispatchVars,
               callVars,
               noCodeVars,
               unopVars,
               binopVars,
               sliceVars>>

----------------------------------------------------------------------------
(* Bounds *)

MaxSteps == 4       \* Defer, Call, Panic, os.Exit instructions and callbacks executed
MaxRecovers == 1    \* recover() calls executed as instructions
MaxDepth == 2       \* depth of the call chain that Call instructions build
MaxDefers == 2      \* deferred calls registered by one frame
MaxCallbacks == 1   \* closures one native function calls back

(* Values the program uses: its k-th panic and its k-th os.Exit carry *)
(* values of their own, so that each can be told from the others.     *)
PanicVals == {30 + 7 * hist.panics}
ExitCodes == {IF hist.exits % 2 = 0 THEN -2 - hist.exits ELSE 3 + hist.exits}

----------------------------------------------------------------------------
(* Panic values travelling through the host: targetPanic{v}, exitPanic(n), *)
(* and the string doRecover panics with on an unexpected panic type.       *)

NoPanic == [kind |-> "none", v |-> 0]
targetPanic(v) == [kind |-> "targetPanic", v |-> v]
exitPanic(n) == [kind |-> "exitPanic", v |-> n]
UnexpectedPanicType == [kind |-> "string", v |-> 0]

(* goid.Get() of the goroutine that runs Interp.Run *)
Goid == 1

(* Values of the interpreted program: nil or an integer *)
Nil == [nil |-> TRUE, v |-> 0]
Val(v) == [nil |-> FALSE, v |-> v]

(* error results of Interp.Run *)
NoErr == [kind |-> "nil", v |-> 0]

(* What a call, defer or callback may invoke *)
Callee(k, n) == [k |-> k, n |-> n]
FnCallee == Callee("fn", 0)            \* an interpreted function or closure literal
FuncvalCallee == Callee("funcval", 0)  \* a closure held as a function value
NativeCallee == Callee("native", 0)    \* a native function that calls closures back
RecoverCallee == Callee("recover", 0)  \* the builtin recover
ExitCallees == {Callee("exit", n) : n \in ExitCodes}

(* Whether the function of a frame has a recover block (pfn.Recover # nil, *)
(* which the SSA builder gives exactly the functions that hold a Defer) is *)
(* part of the program.  A frame starts with "open" and the choice is made *)
(* where the frame first depends on it: at its first Defer ("yes"), when a *)
(* panic reaches frame.run or when the frame returns.                      *)
HasRecover(f) == f.rec # "no"
NoRecover(f) == f.rec # "yes"

----------------------------------------------------------------------------
(* Frames *)

Top == gostack[Len(gostack)]
TopIsFrame == Len(gostack) > 0 /\ Top.k = "fr"
TopIsNative == Len(gostack) > 0 /\ Top.k = "nat"
Cur == frames[Top.id]
InDefers(f) == f.phase \in {"rundefers", "handler"}

(* Function.allocFrame for a function that is not yet pooled.  The fields *)
(* after d are history: who deferred the call, the deferred calls made,   *)
(* and in last the value of the latest panic that reached the frame (the  *)
(* result of the recover() of frame.run or frame.runDefer).               *)
allocFrame(caller, dby) ==
    [caller |-> caller,
     rec |-> "open",
     pc |-> 0,
     defers |-> <<>>,
     panicking |-> NoPanic,
     deferid |-> IF caller # 0 THEN frames[caller].deferid ELSE 0,
     phase |-> "run",
     d |-> 0,
     deferredBy |-> dby,
     nreg |-> 0,
     ran |-> <<>>,
     pass |-> <<>>,
     recd |-> FALSE,
     handled |-> FALSE,
     last |-> NoPanic,
     via |-> "live"]

(* The frame on top after the instruction fetch of frame.run: fr.pc++ *)
Fetch(f) == [f EXCEPT !.pc = @ + 1]

(* `if caller.deferid != 0 { i.deferMap.Store(caller.deferid, caller) }` at *)
(* the head of callExternal, callExternalDiscardsResult, callExternalByStack *)
StoreDeferFrame(c) == IF frames[c].deferid # 0 THEN c ELSE deferMap

(* Interp.tryDeferFrame *)
tryDeferFrame == IF deferCount # 0 /\ deferMap # 0 THEN deferMap ELSE 0

(* The condition under which doRecover takes the panic of caller.caller *)
RecoverCond(c) ==
    /\ c # 0
    /\ frames[c].panicking = NoPanic
    /\ frames[c].caller # 0
    /\ frames[frames[c].caller].panicking # NoPanic

(* The value doRecover returns for panic value p (its type switch); the *)
(* default branch panics instead of returning.                           *)
RecoverPanics(p) == p.kind \notin {"targetPanic", "string"}
RecoverValue(p) ==
    IF p.kind = "targetPanic" THEN [nil |-> FALSE, kind |-> "value", v |-> p.v]
    ELSE [nil |-> FALSE, kind |-> p.kind, v |-> p.v]
NilValue == [nil |-> TRUE, kind |-> "none", v |-> 0]

(* A doRecover that returns the value and leaves caller.caller.panicking set *)
RecoverFramesKeepingPanic(fs, c) ==
    IF RecoverCond(c)
    THEN [fs EXCEPT ![fs[c].caller].recd = ~RecoverPanics(frames[fs[c].caller].panicking)]
    ELSE fs

(* frames after doRecover(c): caller.caller.panicking = nil *)
RecoverFrames(fs, c) ==
    IF RecoverCond(c)
    THEN [fs EXCEPT ![fs[c].caller].panicking = NoPanic,
                    ![fs[c].caller].recd = ~RecoverPanics(frames[fs[c].caller].panicking)]
    ELSE fs

(* What the program observes and what the history keeps of one recover() *)
RecoverLog(c, asDeferred) ==
    LET hit == RecoverCond(c)
        p == IF hit THEN frames[frames[c].caller].panicking ELSE NoPanic
        dby == frames[c].deferredBy
    IN [n |-> rlog.n + 1,
        calls |-> rlog.calls,
        c |-> c,
        asDeferred |-> asDeferred,
        ret |-> IF hit /\ ~RecoverPanics(p) THEN RecoverValue(p) ELSE NilValue,
        raised |-> hit /\ RecoverPanics(p),
        cleared |-> hit,
        dby |-> dby,
        dpanic |-> IF dby # 0 THEN frames[dby].panicking ELSE NoPanic,
        selfPanic |-> frames[c].panicking]

(* The caller's side of a callee that returned normally to the entry on top *)
(* of gs: runDefer sets ok and the loop of runDefers moves to d.tail; a call *)
(* instruction or a native function simply goes on.                          *)
Resume(fs, gs) ==
    IF Len(gs) > 0 /\ gs[Len(gs)].k = "fr" /\ InDefers(fs[gs[Len(gs)].id])
    THEN [fs EXCEPT ![gs[Len(gs)].id].d = @ + 1]
    ELSE fs

Pop == SubSeq(gostack, 1, Len(gostack) - 1)
FrameEntry(id) == [k |-> "fr", id |-> id, cbs |-> 0]
NativeEntry(c) == [k |-> "nat", id |-> c, cbs |-> 0]

(* a runDefers that goes to its tail without calling the deferred records *)
BeginRunDefersAtTail(f, ph) ==
    [f EXCEPT !.phase = ph, !.d = Len(f.defers) + 1, !.deferid = Goid, !.pass = <<>>]

(* The head of frame.runDefers *)
BeginRunDefers(f, ph) ==
    [f EXCEPT !.phase = ph, !.d = 1, !.deferid = Goid, !.pass = <<>>]

----------------------------------------------------------------------------
(* Instructions of the frame on top (the loop of frame.run) *)

CanStep ==
    /\ ~runDone
    /\ raise = NoPanic
    /\ TopIsFrame
    /\ Cur.phase = "run"

Budget == steps < MaxSteps

(* ssa.Defer: push a deferred record in front of fr.defers *)
Defer(c) ==
    /\ CanStep /\ Budget
    /\ HasRecover(Cur)
    /\ Len(Cur.defers) < MaxDefers
    /\ frames' = [frames EXCEPT ![Top.id] =
                    [Fetch(Cur) EXCEPT !.defers = <<[fn |-> c, tag |-> Cur.nreg + 1]>> \o @,
                                       !.nreg = @ + 1,
                                       !.rec = "yes"]]
    /\ steps' = steps + 1
    /\ UNCHANGED <<notDeferVars, gostack, raise, deferMap, deferCount, exited, exitCode,
                   err, runDone, rlog, hist>>

(* ssa.Call of an interpreted function: callFunctionByStack[NoRecover] up *)
(* to fr.run of the new frame                                             *)
CallFunction ==
    /\ CanStep /\ Budget
    /\ Len(gostack) < MaxDepth
    /\ frames' = Append([frames EXCEPT ![Top.id] = Fetch(Cur)],
                        allocFrame(Top.id, 0))
    /\ gostack' = Append(gostack, FrameEntry(Len(frames) + 1))
    /\ steps' = steps + 1
    /\ UNCHANGED <<notDeferVars, raise, deferMap, deferCount, exited, exitCode, err,
                   runDone, rlog, hist>>

(* ssa.Call of a native function that may call closures back: *)
(* callExternalByStack up to fn.Call                           *)
CallNative ==
    /\ CanStep /\ Budget
    /\ Len(gostack) < MaxDepth
    /\ frames' = [frames EXCEPT ![Top.id] = Fetch(Cur)]
    /\ deferMap' = StoreDeferFrame(Top.id)
    /\ gostack' = Append(gostack, NativeEntry(Top.id))
    /\ steps' = steps + 1
    /\ UNCHANGED <<notDeferVars, raise, deferCount, exited, exitCode, err, runDone, rlog, hist>>

(* ssa.Call of os.Exit: callExternalByStack of the function findExternFunc *)
(* returns for it, which panics with exitPanic(code) while the run is on   *)
CallOsExit(n) ==
    /\ CanStep /\ Budget
    /\ ~exited
    /\ frames' = [frames EXCEPT ![Top.id] = Fetch(Cur)]
    /\ deferMap' = StoreDeferFrame(Top.id)
    /\ raise' = exitPanic(n)
    /\ hist' = [hist EXCEPT !.exits = @ + 1,
                            !.firstExit = IF hist.exits = 0 THEN n ELSE @]
    /\ steps' = steps + 1
    /\ UNCHANGED <<notDeferVars, gostack, deferCount, exited, exitCode, err, runDone, rlog>>

(* ssa.Panic *)
Panic(v) ==
    /\ CanStep /\ Budget
    /\ frames' = [frames EXCEPT ![Top.id] = Fetch(Cur)]
    /\ raise' = targetPanic(v)
    /\ hist' = [hist EXCEPT !.panics = @ + 1]
    /\ steps' = steps + 1
    /\ UNCHANGED <<notDeferVars, gostack, deferMap, deferCount, exited, exitCode, err,
                   runDone, rlog>>

(* ssa.Call of the builtin recover: callBuiltinByStack, doRecover(caller) *)
CallRecover ==
    /\ CanStep
    /\ rlog.calls < MaxRecovers
    /\ LET c == Top.id
           l == RecoverLog(c, FALSE)
       IN /\ frames' = RecoverFrames([frames EXCEPT ![c] = Fetch(Cur)], c)
          /\ rlog' = [l EXCEPT !.calls = @ + 1]
          /\ raise' = IF l.raised THEN UnexpectedPanicType ELSE NoPanic
          /\ hist' = [hist EXCEPT !.recovers = IF l.cleared /\ ~l.raised THEN @ + 1 ELSE @]
    /\ UNCHANGED <<notDeferVars, gostack, deferMap, deferCount, exited, exitCode, err,
                   runDone, steps>>

(* ssa.RunDefers: frame.runDefers up to its loop *)
RunDefersInstr ==
    /\ CanStep
    /\ HasRecover(Cur)
    /\ frames' = [frames EXCEPT ![Top.id] =
                    [BeginRunDefers(Fetch(Cur), "rundefers") EXCEPT !.rec = "yes"]]
    /\ deferCount' = deferCount + 1
    /\ deferMap' = Top.id
    /\ UNCHANGED <<notDeferVars, gostack, raise, exited, exitCode, err, runDone, steps, rlog, hist>>

(* ssa.Return, then the return of frame.run to the call path that started *)
(* the frame, which hands the frame to Function.deleteFrame                *)
Return ==
    /\ ~runDone
    /\ raise = NoPanic
    /\ TopIsFrame
    /\ \/ Cur.phase = "run" /\ NoRecover(Cur)
       \/ Cur.phase = "ret"
    /\ frames' = Resume([frames EXCEPT ![Top.id] =
                            [Cur EXCEPT !.pc = -1, !.phase = "done", !.via = "return",
                                        !.rec = IF @ = "open" THEN "no" ELSE @]],
                        Pop)
    /\ gostack' = Pop
    /\ UNCHANGED <<notDeferVars, raise, deferMap, deferCount, exited, exitCode, err,
                   runDone, steps, rlog, hist>>

----------------------------------------------------------------------------
(* frame.runDefers and frame.runDefer *)

InRunDefers ==
    /\ ~runDone
    /\ raise = NoPanic
    /\ TopIsFrame
    /\ InDefers(Cur)

(* The deferred record the loop `for d := fr.defers; d != nil; d = d.tail` *)
(* is at, with the history of the calls made                               *)
CurDeferred == Cur.defers[Cur.d]
Ran(f, tag) == [f EXCEPT !.ran = Append(@, tag), !.pass = Append(@, tag)]

(* runDefer of a deferred interpreted function or closure literal: *)
(* callDiscardsResult, callFunctionDiscardsResult up to fr.run     *)
RunDeferFunction ==
    /\ InRunDefers
    /\ Cur.d <= Len(Cur.defers)
    /\ CurDeferred.fn.k = "fn"
    /\ frames' = Append([frames EXCEPT ![Top.id] = Ran(Cur, CurDeferred.tag)],
                        allocFrame(Top.id, Top.id))
    /\ gostack' = Append(gostack, FrameEntry(Len(frames) + 1))
    /\ UNCHANGED <<notDeferVars, raise, deferMap, deferCount, exited, exitCode, err,
                   runDone, steps, rlog, hist>>

(* runDefer of a deferred function value (a closure made by Interp.makeFunc): *)
(* callExternalDiscardsResult, then the reflect.MakeFunc body calls           *)
(* callFunctionByReflect(i.tryDeferFrame(), ...)                              *)
RunDeferFuncval ==
    /\ InRunDefers
    /\ Cur.d <= Len(Cur.defers)
    /\ CurDeferred.fn.k = "funcval"
    /\ deferMap' = StoreDeferFrame(Top.id)
    /\ LET caller == IF deferCount # 0 /\ deferMap' # 0 THEN deferMap' ELSE 0
       IN frames' = Append([frames EXCEPT ![Top.id] = Ran(Cur, CurDeferred.tag)],
                           allocFrame(caller, Top.id))
    /\ gostack' = Append(gostack, FrameEntry(Len(frames) + 1))
    /\ UNCHANGED <<notDeferVars, raise, deferCount, exited, exitCode, err, runDone, steps,
                   rlog, hist>>

(* runDefer of a deferred native function: callExternalDiscardsResult *)
RunDeferNative ==
    /\ InRunDefers
    /\ Cur.d <= Len(Cur.defers)
    /\ CurDeferred.fn.k = "native"
    /\ deferMap' = StoreDeferFrame(Top.id)
    /\ frames' = [frames EXCEPT ![Top.id] = Ran(Cur, CurDeferred.tag)]
    /\ gostack' = Append(gostack, NativeEntry(Top.id))
    /\ UNCHANGED <<notDeferVars, raise, deferCount, exited, exitCode, err, runDone, steps,
                   rlog, hist>>

(* runDefer of `defer recover()`: callBuiltinDiscardsResult, doRecover(fr); *)
(* a panic of doRecover is caught by runDefer's deferred function           *)
RunDeferRecover ==
    /\ InRunDefers
    /\ Cur.d <= Len(Cur.defers)
    /\ CurDeferred.fn.k = "recover"
    /\ LET c == Top.id
           l == RecoverLog(c, TRUE)
           after == RecoverFrames([frames EXCEPT ![c] = Ran(Cur, CurDeferred.tag)], c)
       IN /\ frames' = [after EXCEPT ![c].d = @ + 1,
                                     ![c].panicking = IF l.raised THEN UnexpectedPanicType ELSE @,
                                     ![c].last = IF l.raised THEN UnexpectedPanicType ELSE @,
                                     ![c].recd = IF l.raised THEN FALSE ELSE @]
          /\ rlog' = l
          /\ hist' = [hist EXCEPT !.recovers = IF l.cleared /\ ~l.raised THEN @ + 1 ELSE @]
    /\ UNCHANGED <<notDeferVars, gostack, raise, deferMap, deferCount, exited, exitCode,
                   err, runDone, steps>>

(* runDefer of `defer os.Exit(n)`: the exitPanic is caught by runDefer's *)
(* deferred function and becomes the frame's panicking record            *)
RunDeferOsExit ==
    /\ InRunDefers
    /\ Cur.d <= Len(Cur.defers)
    /\ CurDeferred.fn.k = "exit"
    /\ ~exited
    /\ deferMap' = StoreDeferFrame(Top.id)
    /\ frames' = [frames EXCEPT ![Top.id] =
                    [Ran(Cur, CurDeferred.tag) EXCEPT !.d = @ + 1,
                                                      !.panicking = exitPanic(CurDeferred.fn.n),
                                                      !.last = exitPanic(CurDeferred.fn.n),
                                                      !.recd = FALSE]]
    /\ hist' = [hist EXCEPT !.exits = @ + 1,
                            !.firstExit = IF hist.exits = 0 THEN CurDeferred.fn.n ELSE @]
    /\ UNCHANGED <<notDeferVars, gostack, raise, deferCount, exited, exitCode, err, runDone,
                   steps, rlog>>

(* The tail of frame.runDefers: the loop is over *)
EndRunDefers(f) == [f EXCEPT !.deferid = 0]

(* ... with the frame still panicking: panic(fr.panicking.value).  From the *)
(* RunDefers instruction the panic reaches the deferred function of         *)
(* frame.run of the same frame; from there it leaves frame.run.             *)
RunDefersPanic ==
    /\ InRunDefers
    /\ Cur.d > Len(Cur.defers)
    /\ Cur.panicking # NoPanic
    /\ deferMap' = 0
    /\ deferCount' = deferCount - 1
    /\ raise' = Cur.panicking
    /\ IF Cur.phase = "rundefers"
       THEN /\ frames' = [frames EXCEPT ![Top.id] = [EndRunDefers(Cur) EXCEPT !.phase = "run"]]
            /\ gostack' = gostack
       ELSE /\ frames' = [frames EXCEPT ![Top.id] =
                            [EndRunDefers(Cur) EXCEPT !.phase = "done", !.via = "panic"]]
            /\ gostack' = Pop
    /\ UNCHANGED <<notDeferVars, exited, exitCode, err, runDone, steps, rlog, hist>>

(* ... with no panic left: runDefers returns, to the instruction after *)
(* RunDefers or to the recover block                                    *)
RunDefersReturn ==
    /\ InRunDefers
    /\ Cur.d > Len(Cur.defers)
    /\ Cur.panicking = NoPanic
    /\ deferMap' = 0
    /\ deferCount' = deferCount - 1
    /\ frames' = [frames EXCEPT ![Top.id] =
                    [EndRunDefers(Cur) EXCEPT
                        !.phase = IF Cur.phase = "rundefers" THEN "ret" ELSE "recover"]]
    /\ UNCHANGED <<notDeferVars, gostack, raise, exited, exitCode, err, runDone, steps, rlog, hist>>

(* `for _, fn := range fr.pfn.Recover { fn(fr) }`: the recover block ends *)
(* in a Return; frame.run then returns normally to the call path          *)
RecoverBlock ==
    /\ ~runDone
    /\ raise = NoPanic
    /\ TopIsFrame
    /\ Cur.phase = "recover"
    /\ frames' = Resume([frames EXCEPT ![Top.id] =
                            [Cur EXCEPT !.pc = -1, !.phase = "done", !.via = "recover"]],
                        Pop)
    /\ gostack' = Pop
    /\ UNCHANGED <<notDeferVars, raise, deferMap, deferCount, exited, exitCode, err,
                   runDone, steps, rlog, hist>>

----------------------------------------------------------------------------
(* A host panic unwinding the call chain *)

Unwinding ==
    /\ ~runDone
    /\ raise # NoPanic
    /\ Len(gostack) > 0

(* The deferred function of frame.run, reached by a panic of the frame's *)
(* instructions: fr.pc is not -1                                         *)
RunPanicked ==
    /\ Unwinding
    /\ TopIsFrame
    /\ Cur.phase = "run"
    /\ HasRecover(Cur)
    /\ frames' = [frames EXCEPT ![Top.id] =
                    [BeginRunDefers(Cur, "handler") EXCEPT !.rec = "yes",
                                                           !.panicking = raise,
                                                           !.last = raise,
                                                           !.recd = FALSE,
                                                           !.handled = TRUE]]
    /\ raise' = NoPanic
    /\ deferCount' = deferCount + 1
    /\ deferMap' = Top.id
    /\ UNCHANGED <<notDeferVars, gostack, exited, exitCode, err, runDone, steps, rlog, hist>>

(* A frame of a function without recover block (no deferred function in *)
(* frame.run, or the loop of callFunctionByStackNoRecover): the panic   *)
(* passes; Function.deleteFrame is skipped                              *)
UnwindFrame ==
    /\ Unwinding
    /\ TopIsFrame
    /\ Cur.phase = "run"
    /\ NoRecover(Cur)
    /\ frames' = [frames EXCEPT ![Top.id] =
                    [Cur EXCEPT !.rec = "no", !.phase = "done", !.via = "panic"]]
    /\ gostack' = Pop
    /\ UNCHANGED <<notDeferVars, raise, deferMap, deferCount, exited, exitCode, err,
                   runDone, steps, rlog, hist>>

(* The panic passes a native function *)
UnwindNative ==
    /\ Unwinding
    /\ TopIsNative
    /\ gostack' = Pop
    /\ UNCHANGED <<notDeferVars, frames, raise, deferMap, deferCount, exited, exitCode, err,
                   runDone, steps, rlog, hist>>

(* a variant of runDefer that keeps the panic the frame already has *)
RunDeferPanickedKeepingFirst ==
    /\ Unwinding
    /\ TopIsFrame
    /\ InDefers(Cur)
    /\ frames' = [frames EXCEPT ![Top.id] =
                    [Cur EXCEPT !.panicking = IF @ = NoPanic THEN raise ELSE @,
                                !.last = raise, !.recd = FALSE, !.d = @ + 1]]
    /\ raise' = NoPanic
    /\ UNCHANGED <<notDeferVars, gostack, deferMap, deferCount, exited, exitCode, err,
                   runDone, steps, rlog, hist>>

(* The deferred function of frame.runDefer: the deferred call panicked, *)
(* fr.panicking = &panicking{recover()}, and the loop goes on           *)
RunDeferPanicked ==
    /\ Unwinding
    /\ TopIsFrame
    /\ InDefers(Cur)
    /\ frames' = [frames EXCEPT ![Top.id] =
                    [Cur EXCEPT !.panicking = raise, !.last = raise,
                                !.recd = FALSE, !.d = @ + 1]]
    /\ raise' = NoPanic
    /\ UNCHANGED <<notDeferVars, gostack, deferMap, deferCount, exited, exitCode, err,
                   runDone, steps, rlog, hist>>

----------------------------------------------------------------------------
(* Native functions *)

(* A native function calls a closure of the program that it was given: *)
(* the body made by Interp.makeFunc, callFunctionByReflect             *)
NativeCallback ==
    /\ ~runDone
    /\ raise = NoPanic
    /\ TopIsNative
    /\ Budget
    /\ Top.cbs < MaxCallbacks
    /\ frames' = Append(frames, allocFrame(tryDeferFrame, 0))
    /\ gostack' = Append([gostack EXCEPT ![Len(gostack)].cbs = @ + 1],
                         FrameEntry(Len(frames) + 1))
    /\ steps' = steps + 1
    /\ UNCHANGED <<notDeferVars, raise, deferMap, deferCount, exited, exitCode, err,
                   runDone, rlog, hist>>

NativeReturn ==
    /\ ~runDone
    /\ raise = NoPanic
    /\ TopIsNative
    /\ frames' = Resume(frames, Pop)
    /\ gostack' = Pop
    /\ UNCHANGED <<notDeferVars, raise, deferMap, deferCount, exited, exitCode, err,
                   runDone, steps, rlog, hist>>

----------------------------------------------------------------------------
(* Interp.Run *)

(* The type switch of the top-level error handler of Interp.Run on the *)
(* value of recover(): the exit code and the error                     *)
RunExitCode(p, code) == IF p.kind = "exitPanic" THEN p.v ELSE code
(* A handler whose type switch has no case for targetPanic *)
RunErrorWithoutTargetPanic(p) ==
    CASE p.kind = "none" -> NoErr
      [] p.kind = "exitPanic" -> NoErr
      [] p.kind = "string" -> [kind |-> "plainError", v |-> p.v]
      [] OTHER -> [kind |-> "unexpected", v |-> p.v]

RunError(p) ==
    CASE p.kind = "none" -> NoErr
      [] p.kind = "exitPanic" -> NoErr
      [] p.kind = "targetPanic" -> [kind |-> "targetPanic", v |-> p.v]
      [] p.kind = "string" -> [kind |-> "plainError", v |-> p.v]
      [] OTHER -> [kind |-> "unexpected", v |-> p.v]

(* i.call(nil, mainFn, nil, nil) has returned: exitCode = 0 *)
RunReturn ==
    /\ ~runDone
    /\ Len(gostack) = 0
    /\ raise = NoPanic
    /\ exitCode' = RunExitCode(NoPanic, 0)
    /\ err' = RunError(NoPanic)
    /\ exited' = TRUE
    /\ runDone' = TRUE
    /\ UNCHANGED <<notDeferVars, frames, gostack, raise, deferMap, deferCount, steps, rlog, hist>>

(* A panic left i.call: the handler recovers it *)
RunRecovered ==
    /\ ~runDone
    /\ Len(gostack) = 0
    /\ raise # NoPanic
    /\ ~exited
    /\ exitCode' = RunExitCode(raise, exitCode)
    /\ err' = RunError(raise)
    /\ exited' = TRUE
    /\ runDone' = TRUE
    /\ hist' = [hist EXCEPT !.escaped = raise]
    /\ raise' = NoPanic
    /\ UNCHANGED <<notDeferVars, frames, gostack, deferMap, deferCount, steps, rlog>>

----------------------------------------------------------------------------
(* Interp.Run(entry) has set i.exited = false and exitCode = 2 and is in *)
(* i.call(nil, mainFn, nil, nil): callFunction has allocated the frame   *)

NoRecoverLog ==
    [n |-> 0, calls |-> 0, c |-> 0, asDeferred |-> FALSE, ret |-> NilValue, raised |-> FALSE,
     cleared |-> FALSE, dby |-> 0, dpanic |-> NoPanic, selfPanic |-> NoPanic]

InitDefer ==
    /\ frames = <<[caller |-> 0, rec |-> "open", pc |-> 0, defers |-> <<>>,
                   panicking |-> NoPanic, deferid |-> 0, phase |-> "run",
                   d |-> 0, deferredBy |-> 0, nreg |-> 0, ran |-> <<>>,
                   pass |-> <<>>, recd |-> FALSE, handled |-> FALSE,
                   last |-> NoPanic, via |-> "live"]>>
    /\ gostack = <<FrameEntry(1)>>
    /\ raise = NoPanic
    /\ deferMap = 0
    /\ deferCount = 0
    /\ exited = FALSE
    /\ exitCode = 2
    /\ err = NoErr
    /\ runDone = FALSE
    /\ steps = 0
    /\ rlog = NoRecoverLog
    /\ hist = [panics |-> 0, recovers |-> 0, exits |-> 0, firstExit |-> 0,
               escaped |-> NoPanic]

Next ==
    \/ \E c \in {FnCallee, FuncvalCallee, NativeCallee, RecoverCallee}
                 \cup ExitCallees : Defer(c)
    \/ CallFunction
    \/ CallNative
    \/ \E n \in ExitCodes : CallOsExit(n)
    \/ \E v \in PanicVals : Panic(v)
    \/ CallRecover
    \/ RunDefersInstr
    \/ Return
    \/ RunDeferFunction
    \/ RunDeferFuncval
    \/ RunDeferNative
    \/ RunDeferRecover
    \/ RunDeferOsExit
    \/ RunDefersPanic
    \/ RunDefersReturn
    \/ RecoverBlock
    \/ RunPanicked
    \/ UnwindFrame
    \/ UnwindNative
    \/ RunDeferPanicked
    \/ NativeCallback
    \/ NativeReturn
    \/ RunReturn
    \/ RunRecovered

----------------------------------------------------------------------------
(* Context.SetOverrideFunction, Context.ClearOverrideFunction and the run *)
(* of the program of TestOverrideFunction:                                *)
(*     func call(i, j int) int { return i+j }                             *)
(*     func main() { if n := call(10,20); n != 200 { panic(n) } }         *)

MaxContextCalls == 4   \* calls of SetOverrideFunction, ClearOverrideFunction, RunFile

FuncNames == {"main.call", "main.other"}   \* keys given to the Context
OverrideFuncs == {"mul", "sub"}            \* func(i, j int) int values: i*j, i-j
Apply(f, i, j) == IF f = "mul" THEN i * j ELSE i - j

(* reflect.Value: of a func, of nil (the zero Value), or no entry *)
NoEntry == [kind |-> "absent", f |-> ""]
ValueOf(fn) == IF fn = "nil" THEN [kind |-> "invalid", f |-> ""]
               ELSE [kind |-> "func", f |-> fn]

NoRun == [phase |-> "idle", blocks |-> {}, n |-> 0, executed |-> "", set |-> "never",
          exitCode |-> 0, err |-> NoErr, prev |-> <<>>]

ContextIdle == orun.phase \in {"idle", "done"} /\ ctxOps < MaxContextCalls

(* ctx.override[key] = reflect.ValueOf(fn) *)
SetOverrideFunction(key, fn) ==
    /\ ContextIdle
    /\ override' = [override EXCEPT ![key] = ValueOf(fn)]
    /\ lastSet' = [lastSet EXCEPT ![key] = fn]
    /\ ctxOps' = ctxOps + 1
    /\ UNCHANGED <<notOverrideVars, orun>>

(* A ClearOverrideFunction that leaves the entry in place *)
ClearOverrideFunctionKeepingEntry(key) ==
    /\ ContextIdle
    /\ lastSet' = [lastSet EXCEPT ![key] = "cleared"]
    /\ ctxOps' = ctxOps + 1
    /\ UNCHANGED <<notOverrideVars, orun, override>>

(* delete(ctx.override, key) *)
ClearOverrideFunction(key) ==
    /\ ContextIdle
    /\ override' = [override EXCEPT ![key] = NoEntry]
    /\ lastSet' = [lastSet EXCEPT ![key] = "cleared"]
    /\ ctxOps' = ctxOps + 1
    /\ UNCHANGED <<notOverrideVars, orun>>

(* The static check of the packages (checkPackages, called by NewInterp) *)
(* drops the body of a function of the program for which the Context    *)
(* holds an override of the same full name and signature: fn.Blocks is   *)
(* nil afterwards.  The zero Value stored by SetOverrideFunction(key,    *)
(* nil) is no function and overrides nothing.                            *)
Overridden(name) == name \in DOMAIN override /\ override[name].kind = "func"

(* findExternFunc after the os.Exit case: the override entry, if any *)
findExternFunc(fnName) ==
    IF fnName \in DOMAIN override /\ override[fnName].kind # "absent"
    THEN [ok |-> TRUE, ext |-> override[fnName]]
    ELSE [ok |-> FALSE, ext |-> NoEntry]

(* Context.RunFile up to the first instruction of main: NewInterp *)
RunFile ==
    /\ ContextIdle
    /\ orun' = [NoRun EXCEPT
                  !.phase = "main",
                  !.blocks = {f \in {"main.call", "main.main"} : ~Overridden(f)},
                  !.set = lastSet["main.call"],
                  !.prev = IF orun.phase = "done"
                           THEN <<[set |-> orun.set, n |-> orun.n, exitCode |-> orun.exitCode]>>
                           ELSE <<>>]
    /\ ctxOps' = ctxOps + 1
    /\ UNCHANGED <<notOverrideVars, override, lastSet>>

(* makeCallInstr for the static call call(10, 20): a function without *)
(* blocks is called through findExternFunc, any other runs its body    *)
CallStatic ==
    /\ orun.phase = "main"
    /\ IF "main.call" \notin orun.blocks
       THEN LET e == findExternFunc("main.call")
            IN orun' = [orun EXCEPT !.phase = IF e.ok /\ e.ext.kind = "func" THEN "if" ELSE "nocode",
                                    !.n = IF e.ok /\ e.ext.kind = "func" THEN Apply(e.ext.f, 10, 20) ELSE 0,
                                    !.executed = e.ext.f]
       ELSE orun' = [orun EXCEPT !.phase = "if", !.n = 10 + 20, !.executed = "body"]
    /\ UNCHANGED <<notOverrideVars, override, lastSet, ctxOps>>

(* `if n != 200 { panic(n) }`, then Interp.Run returns *)
IfPanic ==
    /\ orun.phase = "if"
    /\ LET p == IF orun.n # 200 THEN targetPanic(orun.n) ELSE NoPanic
       IN orun' = [orun EXCEPT !.phase = "done",
                               !.exitCode = RunExitCode(p, IF p = NoPanic THEN 0 ELSE 2),
                               !.err = RunError(p)]
    /\ UNCHANGED <<notOverrideVars, override, lastSet, ctxOps>>

InitOverride ==
    /\ override = [k \in FuncNames |-> NoEntry]
    /\ lastSet = [k \in FuncNames |-> "never"]
    /\ orun = NoRun
    /\ ctxOps = 0

NextOverride ==
    \/ \E key \in FuncNames, fn \in OverrideFuncs \cup {"nil"} : SetOverrideFunction(key, fn)
    \/ \E key \in FuncNames : ClearOverrideFunction(key)
    \/ RunFile
    \/ CallStatic
    \/ IfPanic

----------------------------------------------------------------------------
(* ssa.Alloc of a stack-allocated local, Function.allocFrame and          *)
(* Function.deleteFrame, in programs of the shape of TestOpAlloc:         *)
(*     func (t T) call() int { return t.n1 * t.n2 }                       *)
(*     func main() {                                                      *)
(*         var n int                                                      *)
(*         for i := 0; i < LoopCount; i++ { n += T{...}.call() }          *)
(*         if n != 9 { panic(n) }                                         *)
(*     }                                                                  *)
(* where each composite literal is T{i, 3}, T{n1: i}, T{n2: 3} or T{}.    *)
(* The literal lives in a stack-allocated local of main, the receiver in  *)
(* a stack-allocated local of call.                                       *)

LoopCount == 3                 \* `for i := 0; i < 3; i++` of TestOpAlloc
CallForPool == {0, 1}          \* counts given to SetLeastCallForEnablePool

ZeroT == [n1 |-> 0, n2 |-> 0]  \* reflect.New(typ).Elem() for T
Literals == {"both", "n1", "n2", "none"}

(* An Alloc that keeps the box found in the register as it is *)
AllocKeepingBox(h, reg) ==
    IF reg # 0
    THEN [heap |-> h, reg |-> reg]
    ELSE [heap |-> Append(h, ZeroT), reg |-> Len(h) + 1]

(* The stack variant of Alloc on register reg (0 is nil) of a frame:      *)
(*     if v := fr.reg(ir); v != nil { SetValue(ValueOf(v).Elem(), elem) } *)
(*     else { fr.setReg(ir, reflect.New(typ).Interface()) }               *)
Alloc(h, reg) ==
    IF reg # 0
    THEN [heap |-> [h EXCEPT ![reg] = ZeroT], reg |-> reg]
    ELSE [heap |-> Append(h, ZeroT), reg |-> Len(h) + 1]

(* A frame made by `&frame{...}; fr.stack = make([]value, p.nstack)` *)
NewFrame == [reg |-> 0, cached |-> FALSE, arg |-> ZeroT, pc |-> "alloc"]

(* Context.SetLeastCallForEnablePool(count), before the run; NewContext *)
(* sets callForPool to 64                                               *)
SetLeastCallForEnablePool(count) ==
    /\ amain.phase = "alloc" /\ amain.i = 0
    /\ ~afn.set
    /\ afn' = [afn EXCEPT !.callForPool = count, !.set = TRUE]
    /\ UNCHANGED <<notAllocVars, heap, amain, acall>>

(* Alloc of the local of the composite literal in main *)
MainAlloc ==
    /\ amain.phase = "alloc"
    /\ LET a == Alloc(heap, amain.reg)
       IN /\ heap' = a.heap
          /\ amain' = [amain EXCEPT !.reg = a.reg, !.phase = "lit"]
    /\ UNCHANGED <<notAllocVars, acall, afn>>

(* The stores of the composite literal: only the fields it names *)
MainStore(lit) ==
    /\ amain.phase = "lit"
    /\ LET v1 == IF lit \in {"both", "n1"} THEN amain.i ELSE heap[amain.reg].n1
           v2 == IF lit \in {"both", "n2"} THEN 3 ELSE heap[amain.reg].n2
           g1 == IF lit \in {"both", "n1"} THEN amain.i ELSE 0
           g2 == IF lit \in {"both", "n2"} THEN 3 ELSE 0
       IN /\ heap' = [heap EXCEPT ![amain.reg] = [n1 |-> v1, n2 |-> v2]]
          /\ amain' = [amain EXCEPT !.phase = "call",
                                    !.expect = @ + g1 * g2,
                                    !.lits = Append(@, lit)]
    /\ UNCHANGED <<notAllocVars, acall, afn>>

(* Function.allocFrame: a frame of the pool (or the pool's New) when the *)
(* function is cached, a new frame otherwise; used counts the calls      *)
allocFrameOf(fr) ==
    /\ \/ /\ afn.cached
          /\ fr \in afn.pool \cup {NewFrame}
          /\ afn' = [afn EXCEPT !.pool = @ \ {fr},
                                !.reused = IF fr.cached THEN @ + 1 ELSE @]
       \/ /\ ~afn.cached
          /\ fr = NewFrame
          /\ afn' = [afn EXCEPT !.used = @ + 1,
                                !.cached = (afn.used + 1 > afn.callForPool)]
    /\ acall' = <<[fr EXCEPT !.arg = heap[amain.reg], !.pc = "alloc"]>>

(* The call T{...}.call(): the receiver is the value loaded from the local *)
MainCall ==
    /\ amain.phase = "call"
    /\ \E fr \in afn.pool \cup {NewFrame} : allocFrameOf(fr)
    /\ amain' = [amain EXCEPT !.phase = "wait"]
    /\ UNCHANGED <<notAllocVars, heap>>

(* Alloc of the local of the receiver t in call *)
CallAlloc ==
    /\ acall # <<>> /\ acall[1].pc = "alloc"
    /\ LET a == Alloc(heap, acall[1].reg)
       IN /\ heap' = a.heap
          /\ acall' = <<[acall[1] EXCEPT !.reg = a.reg, !.pc = "store"]>>
    /\ UNCHANGED <<notAllocVars, amain, afn>>

(* Store of the parameter into the local *)
CallStore ==
    /\ acall # <<>> /\ acall[1].pc = "store"
    /\ heap' = [heap EXCEPT ![acall[1].reg] = acall[1].arg]
    /\ acall' = <<[acall[1] EXCEPT !.pc = "ret"]>>
    /\ UNCHANGED <<notAllocVars, amain, afn>>

(* `return t.n1 * t.n2`, Function.deleteFrame, and `n += ...; i++` in main *)
CallReturn ==
    /\ acall # <<>> /\ acall[1].pc = "ret"
    /\ amain' = [amain EXCEPT
                   !.n = @ + heap[acall[1].reg].n1 * heap[acall[1].reg].n2,
                   !.i = @ + 1,
                   !.phase = IF amain.i + 1 < LoopCount THEN "alloc" ELSE "end"]
    /\ afn' = IF afn.cached
              THEN [afn EXCEPT !.pool = @ \cup {[acall[1] EXCEPT !.cached = TRUE,
                                                               !.arg = ZeroT,
                                                               !.pc = "alloc"]}]
              ELSE afn
    /\ acall' = <<>>
    /\ UNCHANGED <<notAllocVars, heap>>

(* `if n != 9 { panic(n) }` *)
MainEnd ==
    /\ amain.phase = "end"
    /\ amain' = [amain EXCEPT !.phase = "done",
                              !.err = RunError(IF amain.n # 9 THEN targetPanic(amain.n)
                                               ELSE NoPanic)]
    /\ UNCHANGED <<notAllocVars, heap, acall, afn>>

InitAlloc ==
    /\ heap = <<>>
    /\ amain = [phase |-> "alloc", reg |-> 0, i |-> 0, n |-> 0, expect |-> 0,
                lits |-> <<>>, err |-> NoErr]
    /\ acall = <<>>
    /\ afn = [used |-> 0, cached |-> FALSE, pool |-> {}, callForPool |-> 64,
              reused |-> 0, set |-> FALSE]

NextAlloc ==
    \/ \E count \in CallForPool : SetLeastCallForEnablePool(count)
    \/ MainAlloc
    \/ \E lit \in Literals : MainStore(lit)
    \/ MainCall
    \/ CallAlloc
    \/ CallStore
    \/ CallReturn
    \/ MainEnd

----------------------------------------------------------------------------
(* ssa.MakeMap, ssa.MapUpdate, ssa.Lookup and the builtin delete on one map *)
(* with element type interface{}, made by the function "maker" and also     *)
(* handed to the function "other", which holds no MakeMap of the map type.  *)
(* The key type is int ("plain") or struct{a int; _ int} ("blank").         *)

MaxMapOps == 3      \* MapUpdate, Lookup and delete instructions executed

MapFuncs == {"maker", "other"}
FieldVals == {1, 2}                      \* values of the field a (of the int key)
BlankVals == {0, 1}                      \* values of the blank field
Key(a, b) == [a |-> a, b |-> b]
Keys == IF mkind = "blank" THEN {Key(a, b) : a \in FieldVals, b \in BlankVals}
        ELSE {Key(a, 0) : a \in FieldVals}
AllKeys == {Key(a, b) : a \in FieldVals, b \in BlankVals}
Elems == {Nil, Val(1), Val(2)}           \* interface{} values stored
Absent == [nil |-> TRUE, v |-> -1]       \* no entry: MapIndex gives the zero Value

(* equalStruct: equal in all fields that are not named _ *)
equalStruct(x, y) == x.a = y.a

(* pfn.mapUnderscoreKey[typ]: set by the MakeMap instruction of a struct *)
(* key type with a blank field, in the function that holds the MakeMap   *)
mapUnderscoreKey(fn) == fn = "maker" /\ mkind = "blank"

(* The key used on the reflect map: with mapUnderscoreKey,                 *)
(*     for _, vv := range vm.MapKeys() { if equalStruct(vk, vv) { vk = vv; break } } *)
(* which takes the first equal key in the order of MapKeys (any order)    *)
MapKeys == {k \in AllKeys : m[k] # Absent}
ScanKeys(fn, k) ==
    IF mapUnderscoreKey(fn) /\ \E vv \in MapKeys : equalStruct(k, vv)
    THEN {vv \in MapKeys : equalStruct(k, vv)}
    ELSE {k}

(* reflect.Value.SetMapIndex(vk, reflect.ValueOf(v)): the zero Value, which *)
(* reflect.ValueOf gives for a nil interface value, deletes the key         *)
SetMapIndex(mm, vk, v) == [mm EXCEPT ![vk] = IF v = Nil THEN Absent ELSE v]

(* ssa.MakeMap in "maker": reflect.MakeMap(rtyp) for one of the key types *)
MakeMap(kind) ==
    /\ mkind = "none"
    /\ mkind' = kind
    /\ UNCHANGED <<notMapVars, m, gomap, mlog, mops>>

(* ssa.MapUpdate m[k] = v in function fn *)
MapUpdate(fn, k, v) ==
    /\ mkind # "none"
    /\ mops < MaxMapOps
    /\ \E vk \in ScanKeys(fn, k) : m' = SetMapIndex(m, vk, v)
    /\ gomap' = [gomap EXCEPT ![k.a] = v]
    /\ mops' = mops + 1
    /\ mlog' = [mlog EXCEPT !.nilStores = IF v = Nil THEN @ + 1 ELSE @]
    /\ UNCHANGED <<notMapVars, mkind>>

(* ssa.Lookup v, ok := m[k] in function fn: tuple{rv, ok} *)
Lookup(fn, k) ==
    /\ mkind # "none"
    /\ mops < MaxMapOps
    /\ \E vk \in ScanKeys(fn, k) :
          mlog' = [mlog EXCEPT
                     !.n = @ + 1,
                     !.fn = fn,
                     !.ok = m[vk] # Absent,
                     !.rv = IF m[vk] # Absent THEN m[vk] ELSE Nil,
                     !.goOk = gomap[k.a] # Absent,
                     !.goV = IF gomap[k.a] # Absent THEN gomap[k.a] ELSE Nil]
    /\ mops' = mops + 1
    /\ UNCHANGED <<notMapVars, mkind, m, gomap>>

(* builtin delete(m, k): SetMapIndex(k, reflect.Value{}) *)
Delete(fn, k) ==
    /\ mkind # "none"
    /\ mops < MaxMapOps
    /\ m' = [m EXCEPT ![k] = Absent]
    /\ gomap' = [gomap EXCEPT ![k.a] = Absent]
    /\ mops' = mops + 1
    /\ mlog' = [mlog EXCEPT !.deletes = @ + 1]
    /\ UNCHANGED <<notMapVars, mkind>>

InitMap ==
    /\ mkind = "none"
    /\ m = [k \in AllKeys |-> Absent]
    /\ gomap = [a \in FieldVals |-> Absent]
    /\ mlog = [n |-> 0, fn |-> "", ok |-> FALSE, rv |-> Nil, goOk |-> FALSE,
               goV |-> Nil, nilStores |-> 0, deletes |-> 0]
    /\ mops = 0

NextMap ==
    \/ \E kind \in {"plain", "blank"} : MakeMap(kind)
    \/ \E fn \in MapFuncs, k \in Keys, v \in Elems : MapUpdate(fn, k, v)
    \/ \E fn \in MapFuncs, k \in Keys : Lookup(fn, k)
    \/ \E fn \in MapFuncs, k \in Keys : Delete(fn, k)

----------------------------------------------------------------------------
(* ssa.Select: one goroutine executes a select over buffered channels of *)
(* int while other goroutines send, receive and close.                   *)

MaxChanOps == 2     \* sends, receives and closes by the other goroutines
MaxStates == 2      \* communication cases of the select
ChanCap == 1        \* capacity of each channel

Chans == {1, 2}
Dirs == {"recv", "send"}
SelectState(ch, dir) == [ch |-> ch, dir |-> dir]
AllStates == {SelectState(ch, dir) : ch \in Chans, dir \in Dirs}
StateLists == UNION {[1..n -> AllStates] : n \in 0..MaxStates}

(* reflect.Select: a receive can proceed on a channel that holds a value or *)
(* is closed, a send on a channel with room (on a closed channel it         *)
(* proceeds by panicking); the default case can always proceed but is       *)
(* chosen only when no other case can                                        *)
Ready(c) ==
    IF c.dir = "recv"
    THEN Len(chans[c.ch].buf) > 0 \/ chans[c.ch].closed
    ELSE Len(chans[c.ch].buf) < ChanCap \/ chans[c.ch].closed

(* The cases handed to reflect.Select: the default case first when the *)
(* select is not blocking, then one case per state                     *)
DefaultCase == [ch |-> 0, dir |-> "default"]
SelectCases(blocking, states) ==
    IF ~blocking THEN <<DefaultCase>> \o states ELSE states

(* The indexes reflect.Select may return for the cases *)
SelectChoices(cases) ==
    LET ready == {i \in DOMAIN cases : cases[i].dir # "default" /\ Ready(cases[i])}
    IN IF ready # {} THEN ready
       ELSE {i \in DOMAIN cases : cases[i].dir = "default"}

(* The index as reflect.Select returned it *)
ChosenUnshifted(chosen, blocking) == chosen

(* `if !instr.Blocking { chosen-- }`: the default case has index -1 *)
Chosen(chosen, blocking) == IF ~blocking THEN chosen - 1 ELSE chosen

NoSelect == [status |-> "none", blocking |-> FALSE, states |-> <<>>, chosen |-> 0,
             recvOk |-> FALSE, recv |-> 0, ready |-> {}, blocked |-> FALSE,
             case |-> 0, r |-> <<>>]

(* the zero value of the element type of the channels, chan int *)
ElemZero == 0

(* the received value in every receive slot once a receive has succeeded *)
RecvValueOfAnyCase(n, chosen, recv, recvOk) == IF recvOk THEN recv ELSE ElemZero

(* the value appended for the receive state n (0-based): recv.Interface() *)
(* for the chosen case when recvOk, the zero value of the element type    *)
(* otherwise                                                               *)
RecvValue(n, chosen, recv, recvOk) ==
    IF n = chosen /\ recvOk THEN recv ELSE ElemZero

(* r := tuple{chosen, recvOk}, then one value appended per state with Dir *)
(* RecvOnly, in the order of instr.States                                 *)
RECURSIVE AppendRecvs(_, _, _, _, _, _)
AppendRecvs(r, n, states, chosen, recv, recvOk) ==
    IF n >= Len(states) THEN r
    ELSE AppendRecvs(IF states[n + 1].dir = "recv"
                     THEN Append(r, RecvValue(n, chosen, recv, recvOk))
                     ELSE r,
                     n + 1, states, chosen, recv, recvOk)

SelectTuple(states, chosen, recv, recvOk) ==
    AppendRecvs(<<chosen, recvOk>>, 0, states, chosen, recv, recvOk)

(* The goroutine reaches the Select instruction and calls reflect.Select *)
SelectCall(blocking, states) ==
    /\ sel.status = "none"
    /\ sel' = [NoSelect EXCEPT !.status = "waiting", !.blocking = blocking,
                               !.states = states]
    /\ UNCHANGED <<notSelectVars, chans, chanOps>>

(* reflect.Select returns (chosen, recv, recvOk) and the instruction sets *)
(* the register to the tuple; a chosen send on a closed channel panics    *)
SelectReturn ==
    /\ sel.status = "waiting"
    /\ LET cases == SelectCases(sel.blocking, sel.states)
       IN \E i \in SelectChoices(cases) :
            LET c == cases[i]
                got == c.dir = "recv" /\ Len(chans[c.ch].buf) > 0
                recv == IF got THEN Head(chans[c.ch].buf) ELSE 0
                panics == c.dir = "send" /\ chans[c.ch].closed
            IN /\ sel' = [sel EXCEPT
                            !.status = IF c.dir = "send" /\ chans[c.ch].closed
                                       THEN "panicked" ELSE "done",
                            !.chosen = Chosen(i - 1, sel.blocking),
                            !.recvOk = got,
                            !.recv = recv,
                            !.case = i,
                            !.r = IF panics THEN <<>>
                                  ELSE SelectTuple(sel.states,
                                                   Chosen(i - 1, sel.blocking),
                                                   recv, got),
                            !.ready = {n \in DOMAIN sel.states : Ready(sel.states[n])}]
               /\ chans' = CASE got -> [chans EXCEPT ![c.ch].buf = Tail(@)]
                             [] c.dir = "send" /\ ~chans[c.ch].closed ->
                                  [chans EXCEPT ![c.ch].buf = Append(@, 7)]
                             [] OTHER -> chans
    /\ UNCHANGED <<notSelectVars, chanOps>>

(* Other goroutines; the history keeps whether they acted while the *)
(* select was blocked in reflect.Select with no case ready           *)
Blocked ==
    /\ sel.status = "waiting" /\ sel.blocking
    /\ \A n \in DOMAIN sel.states : ~Ready(sel.states[n])
Waited == [sel EXCEPT !.blocked = @ \/ Blocked]

ChanSend(ch) ==
    /\ chanOps < MaxChanOps
    /\ ~chans[ch].closed /\ Len(chans[ch].buf) < ChanCap
    /\ chans' = [chans EXCEPT ![ch].buf = Append(@, 5)]
    /\ chanOps' = chanOps + 1
    /\ sel' = Waited
    /\ UNCHANGED notSelectVars

ChanRecv(ch) ==
    /\ chanOps < MaxChanOps
    /\ Len(chans[ch].buf) > 0
    /\ chans' = [chans EXCEPT ![ch].buf = Tail(@)]
    /\ chanOps' = chanOps + 1
    /\ sel' = Waited
    /\ UNCHANGED notSelectVars

ChanClose(ch) ==
    /\ chanOps < MaxChanOps
    /\ ~chans[ch].closed
    /\ chans' = [chans EXCEPT ![ch].closed = TRUE]
    /\ chanOps' = chanOps + 1
    /\ sel' = Waited
    /\ UNCHANGED notSelectVars

InitSelect ==
    /\ chans = [ch \in Chans |-> [buf |-> <<>>, closed |-> FALSE]]
    /\ sel = NoSelect
    /\ chanOps = 0

NextSelect ==
    \/ \E blocking \in BOOLEAN, states \in StateLists : SelectCall(blocking, states)
    \/ SelectReturn
    \/ \E ch \in Chans : ChanSend(ch)
    \/ \E ch \in Chans : ChanRecv(ch)
    \/ \E ch \in Chans : ChanClose(ch)

----------------------------------------------------------------------------
(* A buffered channel between two goroutines: main makes the channel,      *)
(* starts the sender with the Go instruction and receives with comma-ok    *)
(* until the channel reports closed; the sender sends its values and       *)
(* closes the channel.                                                     *)
(*     ch := make(chan T, n); go func() { ch <- v1; ...; close(ch) }()     *)
(*     for { v, ok := <-ch; if !ok { break }; sum += v }                   *)

MaxSends == 3       \* values the sender sends before it closes the channel
MaxBuffer == 2      \* largest buffer size of the channel

ElemTypes == {"int", "iface"}       \* element type of the channel

(* the values a register of the element type can hold *)
ElemValues(elem) == IF elem = "int" THEN {Val(1), Val(2)} ELSE {Nil, Val(1)}

(* reflect.New(ch.Type().Elem()).Elem(), read back by Interface() *)
ZeroElem(elem) == IF elem = "int" THEN Val(0) ELSE Nil

NoPipe == [made |-> FALSE, elem |-> "int", size |-> 0, buf |-> <<>>,
           closed |-> FALSE]

(* reflect.MakeChan(typ, buffer) *)
MakeChan(elem, buffer) ==
    [made |-> TRUE, elem |-> elem, size |-> buffer, buf |-> <<>>,
     closed |-> FALSE]

(* reflect.Value.Send blocks while the buffer is full *)
CanSend(c) == c.made /\ ~c.closed /\ Len(c.buf) < c.size

(* the Send instruction: a nil register sends the zero value of the element *)
Send(c, x) ==
    IF x = Nil
    THEN [c EXCEPT !.buf = Append(@, ZeroElem(c.elem))]
    ELSE [c EXCEPT !.buf = Append(@, x)]

(* reflect.Value.Recv blocks while the buffer is empty and the channel open *)
CanRecv(c) == c.made /\ (Len(c.buf) > 0 \/ c.closed)

(* a variant of Recv that takes the newest value of the buffer *)
RecvNewest(c) ==
    IF Len(c.buf) > 0
    THEN [v |-> c.buf[Len(c.buf)], ok |-> TRUE,
          c |-> [c EXCEPT !.buf = SubSeq(@, 1, Len(@) - 1)]]
    ELSE [v |-> Nil, ok |-> FALSE, c |-> c]

(* reflect.Value.Recv: the oldest value, or the zero Value and false *)
Recv(c) ==
    IF Len(c.buf) > 0
    THEN [v |-> Head(c.buf), ok |-> TRUE, c |-> [c EXCEPT !.buf = Tail(@)]]
    ELSE [v |-> Nil, ok |-> FALSE, c |-> c]

(* unop, token.ARROW with CommaOk: tuple{v.Interface(), ok} *)
unop(c) ==
    LET r == Recv(c)
    IN  [v |-> IF r.ok THEN r.v ELSE ZeroElem(c.elem), ok |-> r.ok, c |-> r.c]

(* close(ch) *)
Close(c) == [c EXCEPT !.closed = TRUE]

NoReceive == [v |-> Nil, ok |-> TRUE]

MainMakeChan(elem, buffer) ==
    /\ receiver.pc = "start"
    /\ pipe' = MakeChan(elem, buffer)
    /\ receiver' = [receiver EXCEPT !.pc = "go"]
    /\ UNCHANGED <<notPipeVars, sender, goroutines>>

(* the Go instruction: the goroutine is counted and started *)
MainGo ==
    /\ receiver.pc = "go"
    /\ goroutines' = goroutines + 1
    /\ sender' = [sender EXCEPT !.pc = "run"]
    /\ receiver' = [receiver EXCEPT !.pc = "recv"]
    /\ UNCHANGED <<notPipeVars, pipe>>

SenderSend(x) ==
    /\ sender.pc = "run"
    /\ Len(sender.sent) < MaxSends
    /\ CanSend(pipe)
    /\ pipe' = Send(pipe, x)
    /\ sender' = [sender EXCEPT !.sent = Append(@, x)]
    /\ UNCHANGED <<notPipeVars, receiver, goroutines>>

SenderClose ==
    /\ sender.pc = "run"
    /\ pipe' = Close(pipe)
    /\ sender' = [sender EXCEPT !.pc = "closed"]
    /\ UNCHANGED <<notPipeVars, receiver, goroutines>>

(* the function of the goroutine returns: the goroutine is discounted *)
SenderEnd ==
    /\ sender.pc = "closed"
    /\ goroutines' = goroutines - 1
    /\ sender' = [sender EXCEPT !.pc = "done"]
    /\ UNCHANGED <<notPipeVars, pipe, receiver>>

(* v, ok := <-ch; if !ok { break }; sum += v *)
MainRecv ==
    /\ receiver.pc = "recv"
    /\ CanRecv(pipe)
    /\ LET r == unop(pipe)
       IN  /\ pipe' = r.c
           /\ receiver' =
                [receiver EXCEPT
                    !.last = [v |-> r.v, ok |-> r.ok],
                    !.got = IF r.ok THEN Append(@, r.v) ELSE @,
                    !.pc = IF r.ok THEN "recv" ELSE "return"]
    /\ UNCHANGED <<notPipeVars, sender, goroutines>>

(* main returns: Interp.Run sets exitCode = 0 *)
MainReturn ==
    /\ receiver.pc = "return"
    /\ receiver' = [receiver EXCEPT !.pc = "exited", !.exitCode = 0]
    /\ UNCHANGED <<notPipeVars, pipe, sender, goroutines>>

InitPipe ==
    /\ pipe = NoPipe
    /\ sender = [pc |-> "none", sent |-> <<>>]
    /\ receiver = [pc |-> "start", got |-> <<>>, last |-> NoReceive,
                   exitCode |-> 2]
    /\ goroutines = 1

NextPipe ==
    \/ \E elem \in ElemTypes, buffer \in 1..MaxBuffer : MainMakeChan(elem, buffer)
    \/ MainGo
    \/ \E x \in ElemValues(pipe.elem) : SenderSend(x)
    \/ SenderClose
    \/ SenderEnd
    \/ MainRecv
    \/ MainReturn

----------------------------------------------------------------------------
(* The TypeAssert instruction, x.(T) and v, ok := x.(T)                    *)

MaxAsserts == 2     \* TypeAssert instructions executed

(* reflect types of the program: two named struct types called T that are  *)
(* declared in different scopes (T1 has the method String), a named slice  *)
(* type, its unnamed underlying type, int, and an interface type.          *)
Types ==
    [int      |-> [name |-> "int", under |-> "int", iface |-> FALSE, methods |-> {}],
     SliceInt |-> [name |-> "", under |-> "[]int", iface |-> FALSE, methods |-> {}],
     MySlice  |-> [name |-> "MySlice", under |-> "[]int", iface |-> FALSE, methods |-> {}],
     T1       |-> [name |-> "T", under |-> "struct", iface |-> FALSE, methods |-> {"String"}],
     T2       |-> [name |-> "T", under |-> "struct", iface |-> FALSE, methods |-> {}],
     Stringer |-> [name |-> "Stringer", under |-> "interface", iface |-> TRUE,
                   methods |-> {"String"}]]

(* the interface operands: nil, or a value of a concrete dynamic type *)
NilIface == [nil |-> TRUE, typ |-> "int", v |-> 0]
Iface(typ, v) == [nil |-> FALSE, typ |-> typ, v |-> v]
IfaceValues ==
    {NilIface} \cup
    {Iface(t, v) : t \in {n \in DOMAIN Types : ~Types[n].iface}, v \in 1..2}

(* reflect.Type.AssignableTo: directlyAssignable(typ, rt) || implements(typ, rt) *)
AssignableTo(rt, typ) ==
    \/ rt = typ
    \/ /\ ~(Types[typ].name # "" /\ Types[rt].name # "")
       /\ ~Types[typ].iface /\ ~Types[rt].iface
       /\ Types[typ].under = Types[rt].under
    \/ Types[typ].iface /\ Types[typ].methods \subseteq Types[rt].methods

plainError(msg, detail) == [kind |-> "plainError", msg |-> msg, detail |-> detail]
runtimeError(msg, detail) == [kind |-> "runtimeError", msg |-> msg, detail |-> detail]
NoError == [kind |-> "nil", msg |-> "", detail |-> ""]

(* the error typeAssert builds, NoError when the assertion holds *)
typeAssertErr(typ, iv) ==
    IF iv.nil
    THEN plainError("interface conversion", "interface is nil")
    ELSE IF iv.typ = typ \/ AssignableTo(iv.typ, typ)
    THEN NoError
    ELSE IF Types[typ].iface
    THEN runtimeError("interface conversion", "missing method")
    ELSE IF Types[typ].name = Types[iv.typ].name
    THEN runtimeError("interface conversion", "types from different scopes")
    ELSE runtimeError("interface conversion", "is not")

(* typeAssert that panics on a nil interface whatever the form *)
typeAssertPanicsOnNil(typ, iv, CommaOk) ==
    LET error == typeAssertErr(typ, iv)
        v == IF iv.typ = typ \/ Types[typ].iface THEN iv ELSE Iface(typ, iv.v)
    IN  IF error # NoError
        THEN IF ~CommaOk \/ iv.nil
             THEN [panics |-> TRUE, err |-> error, v |-> NilIface, ok |-> FALSE]
             ELSE [panics |-> FALSE, err |-> NoError,
                   v |-> IF Types[typ].iface THEN NilIface ELSE Iface(typ, 0),
                   ok |-> FALSE]
        ELSE [panics |-> FALSE, err |-> NoError, v |-> v, ok |-> TRUE]

(* typeAssert: the value (v = iv, or rv.Convert(typ).Interface()), the     *)
(* "value, ok" tuple, or a panic with the error                            *)
typeAssert(typ, iv, CommaOk) ==
    LET error == typeAssertErr(typ, iv)
        v == IF iv.typ = typ \/ Types[typ].iface THEN iv ELSE Iface(typ, iv.v)
    IN  IF error # NoError
        THEN IF ~CommaOk
             THEN [panics |-> TRUE, err |-> error, v |-> NilIface, ok |-> FALSE]
             ELSE [panics |-> FALSE, err |-> NoError,
                   v |-> IF Types[typ].iface THEN NilIface ELSE Iface(typ, 0),
                   ok |-> FALSE]
        ELSE [panics |-> FALSE, err |-> NoError, v |-> v, ok |-> TRUE]

(* the TypeAssert instruction *)
TypeAssert(typ, iv, CommaOk) ==
    /\ nasserts < MaxAsserts
    /\ nasserts' = nasserts + 1
    /\ tassert' = [typ |-> typ, x |-> iv, CommaOk |-> CommaOk,
                   res |-> typeAssert(typ, iv, CommaOk)]
    /\ UNCHANGED notAssertVars

InitAssert ==
    /\ nasserts = 0
    /\ tassert = [typ |-> "int", x |-> NilIface, CommaOk |-> TRUE,
                  res |-> typeAssert("int", NilIface, TRUE)]

NextAssert ==
    \E typ \in DOMAIN Types, iv \in IfaceValues, CommaOk \in BOOLEAN :
        TypeAssert(typ, iv, CommaOk)

----------------------------------------------------------------------------
(* Comparison with the nil constant: x == nil, nil == x, x != nil          *)

MaxCompares == 2    \* BinOp instructions executed

(* the kinds for which reflect.Value.IsNil is defined, as IsNil lists them *)
NilKinds == {"Slice", "Map", "Func", "Chan", "Ptr", "UnsafePointer"}

(* A register value as reflect.ValueOf sees it: its Kind (Invalid for the  *)
(* nil interface) and whether it is nil; static is the kind of the type    *)
(* of the SSA value.                                                       *)
Operand(static, kind, isnil) == [static |-> static, kind |-> kind, isnil |-> isnil]
Operands ==
    {Operand(k, k, n) : k \in NilKinds, n \in BOOLEAN}
    \cup {Operand("Interface", "Invalid", TRUE), Operand("Interface", "Int", FALSE)}
    \cup {Operand("Interface", k, n) : k \in NilKinds, n \in BOOLEAN}

(* constToValue of the constant nil:T: nil for an interface type (the      *)
(* Interface() of the zero Value of an interface type), else the typed nil *)
constToValue(static) ==
    IF static = "Interface"
    THEN Operand(static, "Invalid", TRUE)
    ELSE Operand(static, static, TRUE)

IsNil(v) ==
    CASE v.kind = "Invalid" -> TRUE
      [] v.kind \in NilKinds -> v.isnil
      [] OTHER -> FALSE

(* a variant of opEQL without the comparison of the kinds *)
opEQLAnyKind(XIsConstNil, x, y) == IF XIsConstNil THEN IsNil(y) ELSE IsNil(x)

(* opEQL with one operand the nil constant (IsConstNil(instr.X) or         *)
(* IsConstNil(instr.Y))                                                    *)
opEQL(XIsConstNil, x, y) ==
    IF x.kind # y.kind
    THEN FALSE
    ELSE IF XIsConstNil THEN IsNil(y) ELSE IsNil(x)

(* the BinOp instruction, token.EQL or token.NEQ *)
BinOp(op, XIsConstNil, v) ==
    /\ ncmps < MaxCompares
    /\ ncmps' = ncmps + 1
    /\ LET c == constToValue(v.static)
           x == IF XIsConstNil THEN c ELSE v
           y == IF XIsConstNil THEN v ELSE c
       IN  cmp' = [op |-> op, XIsConstNil |-> XIsConstNil, v |-> v,
                   res |-> IF op = "EQL" THEN opEQL(XIsConstNil, x, y)
                                         ELSE ~opEQL(XIsConstNil, x, y)]
    /\ UNCHANGED notCmpVars

InitCmp ==
    /\ ncmps = 0
    /\ cmp = [op |-> "EQL", XIsConstNil |-> FALSE,
              v |-> Operand("Interface", "Invalid", TRUE), res |-> TRUE]

NextCmp ==
    \E op \in {"EQL", "NEQ"}, XIsConstNil \in BOOLEAN, v \in Operands :
        BinOp(op, XIsConstNil, v)

----------------------------------------------------------------------------
(* The runners of the host API: Interp.Run, Context.Run, Context.RunFile,  *)
(* Context.RunPkg and Context.TestPkg.                                     *)

(* the entries of the host API; Context.Run is given a directory or a      *)
(* path ending in ".go"                                                    *)
Entries == {"Interp.Run", "Context.Run(dir)", "Context.Run(.go)",
            "Context.RunFile", "Context.RunPkg", "Context.TestPkg"}

(* The program: whether it parses, type-checks and builds, the name of its *)
(* package, whether it declares func main, whether the static check of     *)
(* checkPackages fails, and whether init and main panic.                   *)
Programs ==
    [loads : BOOLEAN, name : {"main", "lib"}, hasMain : BOOLEAN,
     checkFails : BOOLEAN, initPanics : BOOLEAN, mainPanics : BOOLEAN]

NilErr == [wrap |-> "", e |-> "nil"]
Err(e) == [wrap |-> "", e |-> e]
InitErr(error) == [error EXCEPT !.wrap = "init error: "]    \* fmt.Errorf("init error: %w", err)
NoCode == -1000     \* the runner returns no exit code

(* Interp.Run(entry): exit code, error and whether the entry was called *)
InterpRunOf(prog, entry) ==
    IF entry = "main" /\ ~prog.hasMain
    THEN [exitCode |-> 1, err |-> Err("no function"), called |-> FALSE]
    ELSE IF (entry = "init" /\ prog.initPanics) \/ (entry = "main" /\ prog.mainPanics)
    THEN [exitCode |-> 2, err |-> Err("targetPanic"), called |-> TRUE]
    ELSE [exitCode |-> 0, err |-> NilErr, called |-> TRUE]

(* NewInterp: the error of checkPackages, or the error of Run("init")      *)
(* wrapped as an init error                                                *)
NewInterpOf(prog) ==
    IF prog.checkFails
    THEN [err |-> Err("check"), initCalled |-> FALSE]
    ELSE LET r == InterpRunOf(prog, "init")
         IN  [err |-> IF r.err # NilErr THEN InitErr(r.err) ELSE NilErr,
              initCalled |-> TRUE]

isMainPkg(prog) == prog.name = "main" /\ prog.hasMain

Idle == [pc |-> "idle", api |-> "Interp.Run",
         prog |-> [loads |-> TRUE, name |-> "main", hasMain |-> TRUE,
                   checkFails |-> FALSE, initPanics |-> FALSE,
                   mainPanics |-> FALSE],
         exitCode |-> NoCode, err |-> NilErr, failed |-> FALSE,
         initFailed |-> FALSE, mainCalls |-> 0]

Returns(r, code, error) ==
    [r EXCEPT !.pc = "done", !.exitCode = code, !.err = error]

(* the host calls an entry of the API with a program; Interp.Run is called *)
(* on the Interp that NewInterp made for a package that loaded             *)
Start(api, prog) ==
    /\ runner.pc = "idle"
    /\ api = "Interp.Run" => prog.loads /\ ~prog.checkFails /\ ~prog.initPanics
    /\ api \in {"Context.RunPkg", "Context.TestPkg"} => prog.loads
    /\ runner' = [runner EXCEPT
                    !.api = api, !.prog = prog,
                    !.pc = CASE api = "Interp.Run" -> "Run"
                             [] api = "Context.Run(dir)" -> "LoadDir"
                             [] api \in {"Context.Run(.go)", "Context.RunFile"} -> "LoadFile"
                             [] OTHER -> "NewInterp"]
    /\ UNCHANGED notRunnerVars

(* Interp.Run("main") called by the host *)
InterpRun ==
    /\ runner.pc = "Run"
    /\ LET r == InterpRunOf(runner.prog, "main")
       IN  runner' = [Returns(runner, r.exitCode, r.err) EXCEPT
                        !.mainCalls = IF r.called THEN @ + 1 ELSE @]
    /\ UNCHANGED notRunnerVars

(* Context.Run with a directory: LoadDir, then isMainPkg *)
ContextRun ==
    /\ runner.pc = "LoadDir"
    /\ runner' = IF ~runner.prog.loads
                 THEN Returns(runner, 2, Err("load"))
                 ELSE IF ~isMainPkg(runner.prog)
                 THEN Returns(runner, 2, Err("ErrNotFoundMain"))
                 ELSE [runner EXCEPT !.pc = "NewInterp"]
    /\ UNCHANGED notRunnerVars

(* Context.RunFile: LoadFile, then RunPkg *)
ContextRunFile ==
    /\ runner.pc = "LoadFile"
    /\ runner' = IF ~runner.prog.loads
                 THEN Returns(runner, 2, Err("load"))
                 ELSE [runner EXCEPT !.pc = "NewInterp"]
    /\ UNCHANGED notRunnerVars

(* RunPkg and TestPkg call NewInterp: RunPkg returns 2 and the error,      *)
(* TestPkg sets failed and goes on                                         *)
NewInterp ==
    /\ runner.pc = "NewInterp"
    /\ LET r == NewInterpOf(runner.prog)
           init == [runner EXCEPT
                      !.initFailed = @ \/ r.err # NilErr]
       IN  runner' =
             IF r.err = NilErr THEN [init EXCEPT !.pc = "RunInit"]
             ELSE IF runner.api = "Context.TestPkg"
             THEN [init EXCEPT !.pc = "RunInit", !.failed = TRUE]
             ELSE Returns(init, 2, r.err)
    /\ UNCHANGED notRunnerVars

(* interp.RunInit(): runs the package init and wraps its error *)
RunInit ==
    /\ runner.pc = "RunInit"
    /\ LET r == InterpRunOf(runner.prog, "init")
           error == IF r.err # NilErr THEN InitErr(r.err) ELSE NilErr
           init == [runner EXCEPT !.initFailed = @ \/ error # NilErr]
       IN  runner' =
             IF error = NilErr THEN [init EXCEPT !.pc = "RunMain"]
             ELSE IF runner.api = "Context.TestPkg"
             THEN [init EXCEPT !.pc = "RunMain", !.failed = TRUE]
             ELSE Returns(init, 2, error)
    /\ UNCHANGED notRunnerVars

(* interp.RunMain(): runs the entrypoint main; RunPkg returns its results, *)
(* TestPkg returns ErrTestFailed when failed or the exit code is not 0     *)
RunMain ==
    /\ runner.pc = "RunMain"
    /\ LET r == InterpRunOf(runner.prog, "main")
           ran == [runner EXCEPT !.mainCalls = IF r.called THEN @ + 1 ELSE @]
       IN  runner' =
             IF runner.api = "Context.TestPkg"
             THEN IF runner.failed \/ r.exitCode # 0
                  THEN [Returns(ran, NoCode, Err("ErrTestFailed")) EXCEPT
                            !.failed = TRUE]
                  ELSE Returns(ran, NoCode, NilErr)
             ELSE Returns(ran, r.exitCode, r.err)
    /\ UNCHANGED notRunnerVars

InitRunner == runner = Idle

NextRunner ==
    \/ \E api \in Entries, prog \in Programs : Start(api, prog)
    \/ InterpRun
    \/ ContextRun
    \/ ContextRunFile
    \/ NewInterp
    \/ RunInit
    \/ RunMain

----------------------------------------------------------------------------
(* The builtins print and println, and Context.SetPrintOutput              *)

MaxPrints == 3      \* calls of print and println executed
MaxPrintArgs == 2   \* arguments of one call

(* the text of an argument as toString or toInterface renders it *)
ArgTexts == {"1", "x"}
RECURSIVE SeqsUpTo(_, _)
SeqsUpTo(S, n) ==
    IF n = 0 THEN {<<>>}
    ELSE SeqsUpTo(S, n - 1)
         \cup {Append(s, x) : s \in {t \in SeqsUpTo(S, n - 1) : Len(t) = n - 1}, x \in S}
PrintArgs == SeqsUpTo(ArgTexts, MaxPrintArgs)

(* the bytes the builtin builds: the arguments, separated by a space and   *)
(* ended by a newline for println                                          *)
RECURSIVE Format(_, _, _)
Format(args, ln, i) ==
    IF i > Len(args)
    THEN IF ln THEN <<"\n">> ELSE <<>>
    ELSE (IF i > 1 /\ ln THEN <<" ">> ELSE <<>>) \o <<args[i]>> \o Format(args, ln, i + 1)

(* Context.writeOutput: the buffer of SetPrintOutput, else os.Stdout *)
writeOutput(o, data) ==
    IF o.output
    THEN [o EXCEPT !.buf = @ \o data]
    ELSE [o EXCEPT !.stdout = @ \o data]

(* print: CapturedOutput when it is set, and os.Stdout *)
print(o, b) ==
    [o EXCEPT !.captured = IF o.capturing THEN @ \o b ELSE @,
              !.stdout = @ \o b]

(* ctx.SetPrintOutput(output) with a new buffer *)
SetPrintOutput ==
    /\ ~out.output
    /\ out' = [out EXCEPT !.output = TRUE, !.buf = <<>>, !.since = <<>>,
                          !.stdoutSince = <<>>]
    /\ UNCHANGED <<notPrintVars, nprints>>

(* the host sets the package variable CapturedOutput to a new buffer *)
SetCapturedOutput ==
    /\ ~out.capturing
    /\ out' = [out EXCEPT !.capturing = TRUE]
    /\ UNCHANGED <<notPrintVars, nprints>>

(* callBuiltin, callBuiltinDiscardsResult and callBuiltinByStack, cases    *)
(* "print", "println": print(buf.Bytes())                                  *)
CallPrint(ln, args) ==
    /\ nprints < MaxPrints
    /\ nprints' = nprints + 1
    /\ LET b == Format(args, ln, 1)
           o == print(out, b)
       IN  out' = [o EXCEPT
                    !.since = IF out.output THEN @ \o b ELSE @,
                    !.stdoutSince =
                        IF out.output
                        THEN @ \o SubSeq(o.stdout, Len(out.stdout) + 1, Len(o.stdout))
                        ELSE @]
    /\ UNCHANGED notPrintVars

InitPrint ==
    /\ nprints = 0
    /\ out = [output |-> FALSE, buf |-> <<>>, stdout |-> <<>>,
              capturing |-> FALSE, captured |-> <<>>,
              since |-> <<>>, stdoutSince |-> <<>>]

NextPrint ==
    \/ SetPrintOutput
    \/ SetCapturedOutput
    \/ \E ln \in BOOLEAN, args \in PrintArgs : CallPrint(ln, args)

----------------------------------------------------------------------------
(* Registers: Function.regIndex during compilation, Register.Set and       *)
(* Register.Get in the frames                                              *)

MaxRegSteps == 5    \* regIndex calls and frame steps executed

KindBits == 24      \* src/typeparam_test.go: i>>24, i&0xffffff
kindInvalid == 0
kindConst == 1
kindGlobal == 2
kindFunction == 3

(* the SSA values of the program: the Functions compiled are f and g *)
Fns == {"f", "g"}
SSAConsts == {"c1"}
SSAGlobals == {"g1"}
SSAExterns == {"ext"}                  \* *ssa.Function with Blocks == nil
SSALocals(p) == IF p = "f" THEN {"a1", "a2"} ELSE {"b1"}   \* parameters and instructions
SSAValues(p) == SSAConsts \cup SSAGlobals \cup Fns \cup SSAExterns \cup SSALocals(p)
LocalValues == {<<"local", "1">>, <<"local", "2">>}    \* values the steps of a frame write
NilSlot == <<"nil", "">>               \* a slot of a new frame stack

(* Register(index | kind<<24), a uint32 held as its high byte (the kind     *)
(* bits, i>>24) and its low 24 bits (i&0xffffff)                           *)
RECURSIVE BitOr(_, _)
BitOr(a, b) ==
    IF a = 0 THEN b
    ELSE IF b = 0 THEN a
    ELSE (IF a % 2 = 1 \/ b % 2 = 1 THEN 1 ELSE 0) + 2 * BitOr(a \div 2, b \div 2)
Register(index, k) ==
    [hi |-> BitOr((index \div (2 ^ KindBits)) % 256, k),
     lo |-> index % (2 ^ KindBits)]
Kind(reg) == reg.hi
Index(reg) == reg.lo

(* the kind regIndex gives a value, and the value it admits *)
KindOf(v) ==
    CASE v \in SSAConsts -> kindConst
      [] v \in SSAGlobals -> kindGlobal
      [] v \in Fns -> kindFunction
      [] OTHER -> kindInvalid
StaticValue(v) == <<"static", v>>      \* constToValue, globalToValue, makeFunc

(* a variant of regIndex that hands out p.nstack without advancing it *)
regIndexSameSlot(p, v) ==
    IF v \in DOMAIN istack.stackIndex
    THEN [reg |-> istack.stackIndex[v], istack |-> istack, pfn |-> pfns[p]]
    ELSE IF v \in DOMAIN pfns[p].stackIndex
    THEN [reg |-> pfns[p].stackIndex[v], istack |-> istack, pfn |-> pfns[p]]
    ELSE IF KindOf(v) # 0
    THEN LET reg == Register(Len(istack.stack), KindOf(v))
         IN  [reg |-> reg,
              istack |-> [stack |-> Append(istack.stack, StaticValue(v)),
                          stackIndex |-> istack.stackIndex @@ (v :> reg)],
              pfn |-> pfns[p]]
    ELSE LET reg == Register(pfns[p].nstack, 0)
         IN  [reg |-> reg, istack |-> istack,
              pfn |-> [pfns[p] EXCEPT !.stackIndex = @ @@ (v :> reg)]]

(* Function.regIndex: the Register, and Interp and Function after the call *)
regIndex(p, v) ==
    IF v \in DOMAIN istack.stackIndex
    THEN [reg |-> istack.stackIndex[v], istack |-> istack, pfn |-> pfns[p]]
    ELSE IF v \in DOMAIN pfns[p].stackIndex
    THEN [reg |-> pfns[p].stackIndex[v], istack |-> istack, pfn |-> pfns[p]]
    ELSE IF KindOf(v) # 0
    THEN LET reg == Register(Len(istack.stack), KindOf(v))
         IN  [reg |-> reg,
              istack |-> [stack |-> Append(istack.stack, StaticValue(v)),
                          stackIndex |-> istack.stackIndex @@ (v :> reg)],
              pfn |-> pfns[p]]
    ELSE LET reg == Register(pfns[p].nstack, 0)
         IN  [reg |-> reg, istack |-> istack,
              pfn |-> [stackIndex |-> pfns[p].stackIndex @@ (v :> reg),
                       nstack |-> pfns[p].nstack + 1]]

(* a variant of Register.Set that writes the static stack for every kind *)
SetStatic(reg, p, val) ==
    [istack |-> [istack EXCEPT !.stack[Index(reg) + 1] = val],
     stack |-> rframes[p]]

(* Register.Set: the stack of the frame for kind 0, else the static stack *)
Set(reg, p, val) ==
    IF Kind(reg) = 0
    THEN [istack |-> istack, stack |-> [rframes[p] EXCEPT ![Index(reg) + 1] = val]]
    ELSE [istack |-> [istack EXCEPT !.stack[Index(reg) + 1] = val],
          stack |-> rframes[p]]

(* Register.Get *)
Get(reg, p) ==
    IF Kind(reg) = 0 THEN rframes[p][Index(reg) + 1] ELSE istack.stack[Index(reg) + 1]

Compiled(p) == SSALocals(p) \subseteq DOMAIN pfns[p].stackIndex
Running(p) == Len(rframes[p]) > 0

(* makeInstr calls pfn.regIndex(v) for a value of the function: an operand *)
(* or the instruction itself                                               *)
RegIndex(p, v) ==
    /\ rsteps < MaxRegSteps
    /\ ~Running(p)
    /\ LET r == regIndex(p, v)
       IN  /\ istack' = r.istack
           /\ pfns' = [pfns EXCEPT ![p] = r.pfn]
           /\ rhist' = [rhist EXCEPT
                          !.first = IF <<p, v>> \in DOMAIN @ THEN @
                                    ELSE @ @@ (<<p, v>> :> r.reg),
                          !.call = [p |-> p, v |-> v, reg |-> r.reg,
                                    again |-> <<p, v>> \in DOMAIN rhist.first]]
    /\ rsteps' = rsteps + 1
    /\ UNCHANGED <<notRegVars, rframes>>

(* allocFrame: fr.stack = make([]value, p.nstack) *)
AllocFrame(p) ==
    /\ Compiled(p) /\ ~Running(p)
    /\ rframes' = [rframes EXCEPT ![p] = [i \in 1..pfns[p].nstack |-> NilSlot]]
    /\ UNCHANGED <<notRegVars, istack, pfns, rhist, rsteps>>

(* a step of the frame: fr.setReg(ir, v) with ir := pfn.regIndex(instr) *)
SetReg(p, instr, val) ==
    /\ rsteps < MaxRegSteps
    /\ Running(p)
    /\ LET r == Set(pfns[p].stackIndex[instr], p, val)
       IN  /\ istack' = r.istack
           /\ rframes' = [rframes EXCEPT ![p] = r.stack]
    /\ rsteps' = rsteps + 1
    /\ UNCHANGED <<notRegVars, pfns, rhist>>

(* a step of the frame: fr.reg(ix) with ix := pfn.regIndex(x) *)
GetReg(p, x) ==
    /\ rsteps < MaxRegSteps
    /\ Running(p)
    /\ LET reg == IF x \in DOMAIN istack.stackIndex THEN istack.stackIndex[x]
                  ELSE pfns[p].stackIndex[x]
       IN  rhist' = [rhist EXCEPT
                       !.read = [p |-> p, v |-> x, reg |-> reg, val |-> Get(reg, p),
                                 done |-> TRUE]]
    /\ rsteps' = rsteps + 1
    /\ UNCHANGED <<notRegVars, istack, pfns, rframes>>

InitReg ==
    /\ istack = [stack |-> <<>>, stackIndex |-> <<>>]
    /\ pfns = [p \in Fns |-> [stackIndex |-> <<>>, nstack |-> 0]]
    /\ rframes = [p \in Fns |-> <<>>]
    /\ rhist = [first |-> <<>>,
                call |-> [p |-> "f", v |-> "c1", reg |-> Register(0, 0),
                          again |-> FALSE],
                read |-> [p |-> "f", v |-> "c1", reg |-> Register(0, 0), val |-> NilSlot,
                         done |-> FALSE]]
    /\ rsteps = 0

NextReg ==
    \/ \E p \in Fns : \E v \in SSAValues(p) : RegIndex(p, v)
    \/ \E p \in Fns : AllocFrame(p)
    \/ \E p \in Fns : \E instr \in SSALocals(p), val \in LocalValues : SetReg(p, instr, val)
    \/ \E p \in Fns :
         \E x \in DOMAIN istack.stackIndex \cup DOMAIN pfns[p].stackIndex : GetReg(p, x)

----------------------------------------------------------------------------
(* Phi, Jump and If: a function with a loop whose header holds two Phis.   *)
(*                                                                         *)
(*   block 0 (entry):  Jump -> 1                                           *)
(*   block 1 (header): p1 = Phi [0: e, 2: e'] ; p2 = Phi [0: e, 2: e']     *)
(*                     If cond -> 2, 3                                     *)
(*   block 2 (body):   t = p1 + p2 ; Jump -> 1                             *)
(*   block 3 (exit):   Return                                              *)
(*                                                                         *)
(* The edges of the Phis are the program's: a parameter on the edge from   *)
(* the entry, and p1, p2 or t on the edge from the body.                   *)

MaxLoops == 2        \* times the loop body is entered

PhiNames == {"p1", "p2"}
EntryEdges == {"a", "b"}
BodyEdges == {"p1", "p2", "t"}

(* ssa.BasicBlock.Preds and Succs by block index, and Function.Blocks, the *)
(* offset of each block in Function.Instrs                                 *)
Preds(b) == IF b = 1 THEN <<0, 2>> ELSE IF b = 0 THEN <<>> ELSE <<1>>
Succs(b) == CASE b = 0 -> <<1>> [] b = 1 -> <<2, 3>> [] b = 2 -> <<1>> [] OTHER -> <<>>
Blocks(b) == CASE b = 0 -> 0 [] b = 1 -> 1 [] b = 2 -> 4 [] OTHER -> 6

(* Function.Instrs by pc *)
Instrs(pc) ==
    CASE pc = 0 -> [op |-> "Jump", ir |-> ""]
      [] pc = 1 -> [op |-> "Phi", ir |-> "p1"]
      [] pc = 2 -> [op |-> "Phi", ir |-> "p2"]
      [] pc = 3 -> [op |-> "If", ir |-> ""]
      [] pc = 4 -> [op |-> "BinOp", ir |-> "t"]
      [] pc = 5 -> [op |-> "Jump", ir |-> ""]
      [] OTHER -> [op |-> "Return", ir |-> ""]

(* The frame allocFrame returns for a call f(1, 2): block = Main, pc = 0, *)
(* pred = 0, the parameters in their registers                            *)
PhiFrame ==
    [pred |-> 0, block |-> 0, pc |-> 0,
     reg |-> [r \in {"a", "b", "p1", "p2", "t"} |->
                 IF r = "a" THEN 1 ELSE IF r = "b" THEN 2 ELSE 0]]

PhiStep(op) ==
    /\ phiEdges # <<>>
    /\ pfr.pc # -1
    /\ Instrs(pfr.pc).op = op

(* The frame after the instruction fetch of frame.run *)
PhiFetch == [pfr EXCEPT !.pc = @ + 1]

(* makeInstr for the two Phis: ie[i] = pfn.regIndex(instr.Edges[i]) *)
MakePhis(e1, e2) ==
    /\ phiEdges = <<>>
    /\ phiEdges' = [p1 |-> e1, p2 |-> e2]
    /\ UNCHANGED <<notPhiVars, pfr, pentry, ploops>>

(* The step closure of a Phi: the first predecessor whose index is fr.pred *)
(* selects the edge, fr.setReg(ir, fr.reg(ie[i]))                          *)
PhiEdge(ie, fr) ==
    LET ps == Preds(fr.block)
        hit == {i \in 1..Len(ps) : ps[i] = fr.pred}
    IN IF hit = {} THEN 0 ELSE CHOOSE i \in hit : \A j \in hit : i <= j

Phi ==
    /\ PhiStep("Phi")
    /\ LET ir == Instrs(pfr.pc).ir
           ie == phiEdges[ir]
           i == PhiEdge(ie, pfr)
       IN pfr' = IF i = 0 THEN PhiFetch
                 ELSE [PhiFetch EXCEPT !.reg[ir] = pfr.reg[ie[i]]]
    /\ UNCHANGED <<notPhiVars, phiEdges, pentry, ploops>>

(* ssa.Jump *)
Jump ==
    /\ PhiStep("Jump")
    /\ LET to == Succs(pfr.block)[1]
       IN pfr' = [pfr EXCEPT !.pred = pfr.block, !.block = to, !.pc = Blocks(to)]
    /\ pentry' = pfr.reg
    /\ UNCHANGED <<notPhiVars, phiEdges, ploops>>

(* ssa.If on a condition register that holds cond *)
If(cond) ==
    /\ PhiStep("If")
    /\ cond => ploops < MaxLoops
    /\ LET to == Succs(pfr.block)[IF cond THEN 1 ELSE 2]
       IN pfr' = [pfr EXCEPT !.pred = pfr.block, !.block = to, !.pc = Blocks(to)]
    /\ pentry' = pfr.reg
    /\ ploops' = IF cond THEN ploops + 1 ELSE ploops
    /\ UNCHANGED <<notPhiVars, phiEdges>>

(* ssa.BinOp ADD on the two Phis, in the body *)
PhiBinOp ==
    /\ PhiStep("BinOp")
    /\ pfr' = [PhiFetch EXCEPT !.reg[Instrs(pfr.pc).ir] = pfr.reg["p1"] + pfr.reg["p2"]]
    /\ UNCHANGED <<notPhiVars, phiEdges, pentry, ploops>>

(* ssa.Return: fr.pc = -1 *)
PhiReturn ==
    /\ PhiStep("Return")
    /\ pfr' = [pfr EXCEPT !.pc = -1]
    /\ UNCHANGED <<notPhiVars, phiEdges, pentry, ploops>>

InitPhi ==
    /\ phiEdges = <<>>
    /\ pfr = PhiFrame
    /\ pentry = PhiFrame.reg
    /\ ploops = 0

NextPhi ==
    \/ \E e1, e2 \in {<<x, y>> : x \in EntryEdges, y \in BodyEdges} : MakePhis(e1, e2)
    \/ Phi
    \/ Jump
    \/ \E cond \in BOOLEAN : If(cond)
    \/ PhiBinOp
    \/ PhiReturn

----------------------------------------------------------------------------
(* The frame pool with goroutines: Function.allocFrame, deleteFrame and    *)
(* the call paths around them, frame.run and frame.runDefers as far as     *)
(* they touch the fields of a frame, callExternal with a callback that     *)
(* asks Interp.tryDeferFrame, and the Go instruction.                      *)
(*                                                                         *)
(* The program has two functions: f holds Defer instructions (so it has a  *)
(* recover block and a RunDefers before its Return), k holds none.  main   *)
(* is an activation of f on goroutine 1; `go k()` starts goroutine 2.      *)

MaxActivations == 3   \* calls of allocFrame
MaxPoolSteps == 4     \* Jump, Defer, Go, Call, Panic, recover instructions executed
MaxPoolDepth == 2     \* activations on one goroutine's call chain
MaxPoolDefers == 1    \* deferred calls registered by one frame

DefaultCallForPool == 64   \* NewContext
PoolCounts == {0, 1}       \* counts given to SetLeastCallForEnablePool
Goroutines == {1, 2}       \* goid.Get() of main and of the goroutine of `go k()`
FnNames == {"f", "k"}

(* `fr := &frame{interp: p.Interp, pfn: p, block: p.Main}`, also what the *)
(* pool's New makes.  st and act are history: in use, pooled or dropped,  *)
(* and the activation the frame was last handed to.                       *)
FreshFrame(fn) ==
    [pfn |-> fn, caller |-> 0, defers |-> <<>>, panicking |-> FALSE, block |-> 0,
     pc |-> 0, pred |-> 0, deferid |-> 0, cached |-> FALSE, st |-> "new", act |-> 0]

(* a reset that keeps the deferred records of the previous activation *)
ResetKeepingDefers(fr) ==
    [fr EXCEPT !.block = 0, !.panicking = FALSE, !.pc = 0, !.pred = 0]

(* `if fr.cached { fr.block = p.Main; fr.defers = nil; ... }` *)
Reset(fr) ==
    [fr EXCEPT !.block = 0, !.defers = <<>>, !.panicking = FALSE, !.pc = 0, !.pred = 0]

(* The tail of allocFrame on the frame it has obtained *)
InitFrame(fr, caller) ==
    LET a == [fr EXCEPT !.caller = caller,
                        !.deferid = IF caller # 0 THEN pfrs[caller].deferid ELSE @]
    IN IF fr.cached THEN Reset(a) ELSE a

(* `atomic.AddInt32(&p.used, 1) > int32(p.Interp.ctx.callForPool)` ... *)
(* ... and a comparison that enables the pool two calls later *)
EnablePoolLate(used, count) == used > count + 2

EnablePool(used, count) == used > count

(* sync.Pool: Get removes the frame it returns *)
PoolGetKeeping(pool, id) == pool
PoolGet(pool, id) == pool \ {id}


(* An entry of a goroutine's call chain: a call path of an interpreted   *)
(* function (callFunction..., with its frame once allocFrame has handed  *)
(* it out) or a native function.  a, n and u are history: the number of  *)
(* the activation, its rank among the allocFrame calls of its function,  *)
(* and the use count of the function when its allocFrame call began.     *)
ActEntry(fn, caller, a) ==
    [k |-> "act", fn |-> fn, fr |-> 0, at |-> "load", caller |-> caller, d |-> 0,
     h |-> FALSE, a |-> a, n |-> 0, u |-> 0, cbs |-> 0]
NatEntry ==
    [k |-> "nat", fn |-> "", fr |-> 0, at |-> "native", caller |-> 0, d |-> 0,
     h |-> FALSE, a |-> 0, n |-> 0, u |-> 0, cbs |-> 0]

PStack(g) == gors[g].stack
PTop(g) == PStack(g)[Len(PStack(g))]
PCur(g) == pfrs[PTop(g).fr]
PAt(g, at) ==
    /\ gors[g].status = "running"
    /\ ~gors[g].raise
    /\ Len(PStack(g)) > 0
    /\ PTop(g).at = at
PBudget == psteps < MaxPoolSteps
MoreActivations == plog.acts < MaxActivations

SetTop(g, e) == [gors EXCEPT ![g].stack[Len(PStack(g))] = e]
Push(g, top, e) == [gors EXCEPT ![g].stack = Append([@ EXCEPT ![Len(@)] = top], e)]

(* The chain of g after its innermost entry has returned normally: the *)
(* loop of runDefers moves to d.tail; the goroutine ends with its chain *)
PopReturn(g) ==
    LET s == SubSeq(PStack(g), 1, Len(PStack(g)) - 1)
        t == IF Len(s) > 0 /\ s[Len(s)].at = "defers"
             THEN [s EXCEPT ![Len(s)].d = @ + 1] ELSE s
    IN [gors EXCEPT ![g].stack = t,
                    ![g].status = IF Len(t) = 0 THEN "done" ELSE @]

(* Context.SetLeastCallForEnablePool(count), before the run *)
PoolSetLeastCallForEnablePool(count) ==
    /\ plog.calls["f"] = 0
    /\ callForPool = DefaultCallForPool
    /\ callForPool' = count
    /\ UNCHANGED <<notPoolVars, fns, pfrs, gors, pdeferMap, pdeferCount, plog, psteps>>

(* allocFrame: `if atomic.LoadInt32(&p.cached) == 1` *)
LoadCached(g) ==
    /\ PAt(g, "load")
    /\ LET e == PTop(g)
       IN /\ gors' = SetTop(g, [e EXCEPT !.at = IF fns[e.fn].cached THEN "get" ELSE "add",
                                         !.n = plog.calls[e.fn] + 1,
                                         !.u = fns[e.fn].used])
          /\ plog' = [plog EXCEPT !.calls[e.fn] = @ + 1]
    /\ UNCHANGED <<notPoolVars, fns, callForPool, pfrs, pdeferMap, pdeferCount, psteps>>

(* The frame id handed to entry e of g: its state, and the history of it *)
HandOut(g, e, id, fr, pooled) ==
    /\ pfrs' = [i \in 1..(IF id > Len(pfrs) THEN id ELSE Len(pfrs)) |->
                   IF i = id
                   THEN [InitFrame(fr, e.caller) EXCEPT !.st = "inuse", !.act = e.a]
                   ELSE pfrs[i]]
    /\ gors' = SetTop(g, [e EXCEPT !.fr = id, !.at = "run"])
    /\ plog' = [plog EXCEPT !.last = [fr |-> id, a |-> e.a, fn |-> e.fn, n |-> e.n,
                                      u |-> e.u,
                                      pooled |-> pooled, before |-> fr,
                                      caller |-> e.caller]]

(* allocFrame: `fr = p.pool.Get()`, a frame of the pool or one made by *)
(* the pool's New (id 0), and the tail of allocFrame                   *)
PoolGetFrame(g, id) ==
    /\ PAt(g, "get")
    /\ LET e == PTop(g)
       IN /\ id \in fns[e.fn].pool \cup {0}
          /\ fns' = [fns EXCEPT ![e.fn].pool = PoolGet(@, id)]
          /\ IF id = 0
             THEN HandOut(g, e, Len(pfrs) + 1, FreshFrame(e.fn), TRUE)
             ELSE HandOut(g, e, id, pfrs[id], TRUE)
    /\ UNCHANGED <<notPoolVars, callForPool, pdeferMap, pdeferCount, psteps>>

(* allocFrame: `atomic.AddInt32(&p.used, 1) > callForPool`; below the *)
(* threshold the new frame and the tail of allocFrame follow          *)
AddUsed(g) ==
    /\ PAt(g, "add")
    /\ LET e == PTop(g)
           used == fns[e.fn].used + 1
       IN /\ fns' = [fns EXCEPT ![e.fn].used = used]
          /\ IF EnablePool(used, callForPool)
             THEN /\ gors' = SetTop(g, [e EXCEPT !.at = "store"])
                  /\ UNCHANGED <<pfrs, plog>>
             ELSE HandOut(g, e, Len(pfrs) + 1, FreshFrame(e.fn), FALSE)
    /\ UNCHANGED <<notPoolVars, callForPool, pdeferMap, pdeferCount, psteps>>

(* allocFrame: `atomic.StoreInt32(&p.cached, 1)`, the new frame and the tail *)
StoreCached(g) ==
    /\ PAt(g, "store")
    /\ LET e == PTop(g)
       IN /\ fns' = [fns EXCEPT ![e.fn].cached = TRUE]
          /\ HandOut(g, e, Len(pfrs) + 1, FreshFrame(e.fn), FALSE)
    /\ UNCHANGED <<notPoolVars, callForPool, pdeferMap, pdeferCount, psteps>>


(* Instructions of the frame on top of g's chain (the loop of frame.run) *)
PFetch(g) == [PCur(g) EXCEPT !.pc = @ + 1]
SetFrame(id, fr) == [pfrs EXCEPT ![id] = fr]

(* ssa.Jump between the two blocks of the function *)
PoolJump(g) ==
    /\ PAt(g, "run") /\ PBudget
    /\ pfrs' = SetFrame(PTop(g).fr,
                  [PFetch(g) EXCEPT !.pred = PCur(g).block, !.block = 1 - PCur(g).block])
    /\ psteps' = psteps + 1
    /\ UNCHANGED <<notPoolVars, fns, callForPool, gors, pdeferMap, pdeferCount, plog>>

(* ssa.Defer in f, of k or of a native function *)
PoolDefer(g, callee) ==
    /\ PAt(g, "run") /\ PBudget
    /\ PTop(g).fn = "f"
    /\ Len(PCur(g).defers) < MaxPoolDefers
    /\ pfrs' = SetFrame(PTop(g).fr, [PFetch(g) EXCEPT !.defers = <<callee>> \o @])
    /\ psteps' = psteps + 1
    /\ UNCHANGED <<notPoolVars, fns, callForPool, gors, pdeferMap, pdeferCount, plog>>

(* ssa.Go of k: `go func() { interp.callDiscardsResult(nil, fn, ...) }()` *)
PoolGo(g) ==
    /\ PAt(g, "run") /\ PBudget /\ MoreActivations
    /\ gors[2].status = "idle"
    /\ pfrs' = SetFrame(PTop(g).fr, PFetch(g))
    /\ gors' = [gors EXCEPT ![2] = [stack |-> <<ActEntry("k", 0, plog.acts + 1)>>,
                                    raise |-> FALSE, status |-> "running"]]
    /\ plog' = [plog EXCEPT !.acts = @ + 1]
    /\ psteps' = psteps + 1
    /\ UNCHANGED <<notPoolVars, fns, callForPool, pdeferMap, pdeferCount>>

(* ssa.Call of f or k: callFunctionByStack up to allocFrame(caller) *)
PoolCall(g, callee) ==
    /\ PAt(g, "run") /\ PBudget /\ MoreActivations
    /\ Len(PStack(g)) < MaxPoolDepth
    /\ pfrs' = SetFrame(PTop(g).fr, PFetch(g))
    /\ gors' = Push(g, PTop(g), ActEntry(callee, PTop(g).fr, plog.acts + 1))
    /\ plog' = [plog EXCEPT !.acts = @ + 1]
    /\ psteps' = psteps + 1
    /\ UNCHANGED <<notPoolVars, fns, callForPool, pdeferMap, pdeferCount>>

(* `if caller.deferid != 0 { i.deferMap.Store(caller.deferid, caller) }` *)
StoreCaller(c) ==
    IF pfrs[c].deferid # 0 THEN [pdeferMap EXCEPT ![pfrs[c].deferid] = c] ELSE pdeferMap

(* ssa.Call of a native function: callExternalByStack up to fn.Call *)
PoolCallNative(g) ==
    /\ PAt(g, "run") /\ PBudget
    /\ Len(PStack(g)) < MaxPoolDepth
    /\ pfrs' = SetFrame(PTop(g).fr, PFetch(g))
    /\ pdeferMap' = StoreCaller(PTop(g).fr)
    /\ gors' = Push(g, PTop(g), NatEntry)
    /\ psteps' = psteps + 1
    /\ UNCHANGED <<notPoolVars, fns, callForPool, pdeferCount, plog>>

(* ssa.Panic *)
PoolPanic(g) ==
    /\ PAt(g, "run") /\ PBudget
    /\ pfrs' = SetFrame(PTop(g).fr, PFetch(g))
    /\ gors' = [gors EXCEPT ![g].raise = TRUE]
    /\ psteps' = psteps + 1
    /\ UNCHANGED <<notPoolVars, fns, callForPool, pdeferMap, pdeferCount, plog>>

(* doRecover(caller) on the frames fs, caller 0 being nil.  The condition *)
(* begins with `caller.interp.mode&DisableRecover == 0 && caller != nil`: *)
(* caller is dereferenced before it is compared with nil.                 *)
PoolDoRecover(fs, c) ==
    IF c = 0
    THEN [frs |-> fs, out |-> "nil pointer dereference"]
    ELSE IF ~fs[c].panicking /\ fs[c].caller # 0 /\ fs[fs[c].caller].panicking
    THEN [frs |-> [fs EXCEPT ![fs[c].caller].panicking = FALSE], out |-> "value"]
    ELSE [frs |-> fs, out |-> "nil"]

(* ssa.Call of the builtin recover in k: callBuiltinByStack, doRecover(caller) *)
PoolRecover(g) ==
    /\ PAt(g, "run") /\ PBudget
    /\ PTop(g).fn = "k"
    /\ LET r == PoolDoRecover(SetFrame(PTop(g).fr, PFetch(g)), PTop(g).fr)
       IN /\ pfrs' = r.frs
          /\ plog' = [plog EXCEPT !.rec = [caller |-> PTop(g).fr, out |-> r.out,
                                           n |-> plog.rec.n + 1]]
    /\ psteps' = psteps + 1
    /\ UNCHANGED <<notPoolVars, fns, callForPool, gors, pdeferMap, pdeferCount>>

(* ssa.Go of the builtin recover: the new goroutine is in             *)
(* interp.callDiscardsResult(nil, fn, args, ...) with fn the builtin  *)
PoolGoRecover(g) ==
    /\ PAt(g, "run") /\ PBudget
    /\ gors[2].status = "idle"
    /\ pfrs' = SetFrame(PTop(g).fr, PFetch(g))
    /\ gors' = [gors EXCEPT ![2] = [stack |-> <<[NatEntry EXCEPT !.k = "builtin",
                                                                !.at = "recover"]>>,
                                    raise |-> FALSE, status |-> "running"]]
    /\ psteps' = psteps + 1
    /\ UNCHANGED <<notPoolVars, fns, callForPool, pdeferMap, pdeferCount, plog>>

(* callBuiltinDiscardsResult, case "recover": doRecover(caller) with the *)
(* nil caller of the Go instruction; a runtime panic leaves the builtin  *)
GoneRecover(g) ==
    /\ PAt(g, "recover")
    /\ LET r == PoolDoRecover(pfrs, PTop(g).caller)
       IN /\ pfrs' = r.frs
          /\ plog' = [plog EXCEPT !.rec = [caller |-> PTop(g).caller, out |-> r.out,
                                           n |-> plog.rec.n + 1]]
          /\ gors' = IF r.out = "nil pointer dereference"
                     THEN [gors EXCEPT ![g].raise = TRUE, ![g].stack = <<>>]
                     ELSE PopReturn(g)
    /\ UNCHANGED <<notPoolVars, fns, callForPool, pdeferMap, pdeferCount, psteps>>

(* ssa.Return in k: fr.pc = -1, frame.run returns to the call path *)
PoolReturn(g) ==
    /\ PAt(g, "run")
    /\ PTop(g).fn = "k"
    /\ pfrs' = SetFrame(PTop(g).fr, [PCur(g) EXCEPT !.pc = -1])
    /\ gors' = SetTop(g, [PTop(g) EXCEPT !.at = "results"])
    /\ UNCHANGED <<notPoolVars, fns, callForPool, pdeferMap, pdeferCount, plog, psteps>>

(* The head of frame.runDefers, entered from the RunDefers instruction that *)
(* precedes the Return of f (h = FALSE) or from the deferred function of    *)
(* frame.run (h = TRUE)                                                     *)
PoolBeginRunDefers(g, fr, h) ==
    /\ pfrs' = SetFrame(PTop(g).fr, [fr EXCEPT !.deferid = g])
    /\ pdeferCount' = pdeferCount + 1
    /\ pdeferMap' = [pdeferMap EXCEPT ![g] = PTop(g).fr]
    /\ gors' = [SetTop(g, [PTop(g) EXCEPT !.at = "defers", !.d = 1, !.h = h])
                   EXCEPT ![g].raise = FALSE]

(* ssa.RunDefers in f *)
PoolRunDefers(g) ==
    /\ PAt(g, "run")
    /\ PTop(g).fn = "f"
    /\ PoolBeginRunDefers(g, PFetch(g), FALSE)
    /\ UNCHANGED <<notPoolVars, fns, callForPool, plog, psteps>>

(* frame.runDefer of the deferred record the loop is at *)
PoolRunDefer(g) ==
    /\ PAt(g, "defers")
    /\ PTop(g).d <= Len(PCur(g).defers)
    /\ IF PCur(g).defers[PTop(g).d] = "k"
       THEN /\ MoreActivations
            /\ gors' = Push(g, PTop(g), ActEntry("k", PTop(g).fr, plog.acts + 1))
            /\ plog' = [plog EXCEPT !.acts = @ + 1]
            /\ pdeferMap' = pdeferMap
       ELSE /\ gors' = Push(g, PTop(g), NatEntry)
            /\ pdeferMap' = StoreCaller(PTop(g).fr)
            /\ plog' = plog
    /\ UNCHANGED <<notPoolVars, fns, callForPool, pfrs, pdeferCount, psteps>>

(* The tail of frame.runDefers.  Still panicking, it panics: into the    *)
(* deferred function of frame.run when it was the RunDefers instruction, *)
(* out of frame.run (Function.deleteFrame is skipped) otherwise.  With   *)
(* no panic left the Return of f or of its recover block follows.        *)
PoolEndRunDefers(g) ==
    /\ PAt(g, "defers")
    /\ PTop(g).d > Len(PCur(g).defers)
    /\ pdeferMap' = [pdeferMap EXCEPT ![PCur(g).deferid] = 0]
    /\ pdeferCount' = pdeferCount - 1
    /\ LET fr == [PCur(g) EXCEPT !.deferid = 0]
           e == PTop(g)
       IN IF ~fr.panicking
          THEN /\ pfrs' = SetFrame(e.fr, [fr EXCEPT !.pc = -1])
               /\ gors' = SetTop(g, [e EXCEPT !.at = "results"])
          ELSE IF ~e.h
          THEN /\ pfrs' = SetFrame(e.fr, fr)
               /\ gors' = [SetTop(g, [e EXCEPT !.at = "run"]) EXCEPT ![g].raise = TRUE]
          ELSE /\ pfrs' = SetFrame(e.fr, [fr EXCEPT !.st = "dropped"])
               /\ gors' = [gors EXCEPT ![g].raise = TRUE,
                                       ![g].stack = SubSeq(@, 1, Len(@) - 1)]
    /\ UNCHANGED <<notPoolVars, fns, callForPool, plog, psteps>>

(* The call path after fr.run(): it reads fr.results and the registers *)
ReadResults(g) ==
    /\ PAt(g, "results")
    /\ gors' = SetTop(g, [PTop(g) EXCEPT !.at = "delete"])
    /\ plog' = [plog EXCEPT !.read = [fr |-> PTop(g).fr, a |-> PTop(g).a,
                                      st |-> PCur(g).st, owner |-> PCur(g).act]]
    /\ UNCHANGED <<notPoolVars, fns, callForPool, pfrs, pdeferMap, pdeferCount, psteps>>

(* Function.deleteFrame, then the call path returns *)
deleteFrame(g) ==
    /\ PAt(g, "delete")
    /\ LET e == PTop(g)
       IN IF fns[e.fn].cached
          THEN /\ pfrs' = SetFrame(e.fr, [PCur(g) EXCEPT !.cached = TRUE, !.st = "pooled"])
               /\ fns' = [fns EXCEPT ![e.fn].pool = @ \cup {e.fr}]
          ELSE /\ pfrs' = SetFrame(e.fr, [PCur(g) EXCEPT !.st = "dropped"])
               /\ fns' = fns
    /\ gors' = PopReturn(g)
    /\ plog' = [plog EXCEPT !.put = [fr |-> PTop(g).fr, pc |-> PCur(g).pc,
                                     d |-> PTop(g).d, defers |-> Len(PCur(g).defers),
                                     pooled |-> fns[PTop(g).fn].cached,
                                     panicking |-> PCur(g).panicking]]
    /\ UNCHANGED <<notPoolVars, callForPool, pdeferMap, pdeferCount, psteps>>

(* Interp.tryDeferFrame on goroutine g *)
PoolTryDeferFrame(g) ==
    IF pdeferCount # 0 /\ pdeferMap[g] # 0 THEN pdeferMap[g] ELSE 0

(* A native function calls back a closure of k: the body made by *)
(* Interp.makeFunc, callFunctionByReflect(i.tryDeferFrame(), ...) *)
PoolCallback(g) ==
    /\ PAt(g, "native") /\ PBudget /\ MoreActivations
    /\ PTop(g).cbs = 0
    /\ LET caller == PoolTryDeferFrame(g)
       IN /\ gors' = Push(g, [PTop(g) EXCEPT !.cbs = 1],
                          ActEntry("k", caller, plog.acts + 1))
          /\ plog' = [plog EXCEPT !.acts = @ + 1,
                                  !.tdf = [g |-> g, fr |-> caller, n |-> plog.tdf.n + 1]]
    /\ psteps' = psteps + 1
    /\ UNCHANGED <<notPoolVars, fns, callForPool, pfrs, pdeferMap, pdeferCount>>

PoolNativeReturn(g) ==
    /\ PAt(g, "native")
    /\ gors' = PopReturn(g)
    /\ UNCHANGED <<notPoolVars, fns, callForPool, pfrs, pdeferMap, pdeferCount, plog, psteps>>

(* A panic in flight on g *)
PUnwinding(g) ==
    /\ gors[g].status = "running"
    /\ gors[g].raise
    /\ Len(PStack(g)) > 0

(* It passes a native function, or a frame of k (no deferred function in *)
(* the call path: Function.deleteFrame is skipped)                       *)
PoolUnwind(g) ==
    /\ PUnwinding(g)
    /\ PTop(g).k = "nat" \/ PTop(g).fn = "k"
    /\ pfrs' = IF PTop(g).k = "nat" THEN pfrs
               ELSE SetFrame(PTop(g).fr, [PCur(g) EXCEPT !.st = "dropped"])
    /\ gors' = [gors EXCEPT ![g].stack = SubSeq(@, 1, Len(@) - 1)]
    /\ UNCHANGED <<notPoolVars, fns, callForPool, pdeferMap, pdeferCount, plog, psteps>>

(* The deferred function of frame.run of f *)
PoolRunPanicked(g) ==
    /\ PUnwinding(g)
    /\ PTop(g).fn = "f" /\ PTop(g).at = "run"
    /\ PoolBeginRunDefers(g, [PCur(g) EXCEPT !.panicking = TRUE], TRUE)
    /\ UNCHANGED <<notPoolVars, fns, callForPool, plog, psteps>>

(* The deferred function of frame.runDefer *)
PoolRunDeferPanicked(g) ==
    /\ PUnwinding(g)
    /\ PTop(g).fn = "f" /\ PTop(g).at = "defers"
    /\ pfrs' = SetFrame(PTop(g).fr, [PCur(g) EXCEPT !.panicking = TRUE])
    /\ gors' = [SetTop(g, [PTop(g) EXCEPT !.d = @ + 1]) EXCEPT ![g].raise = FALSE]
    /\ UNCHANGED <<notPoolVars, fns, callForPool, pdeferMap, pdeferCount, plog, psteps>>

(* The panic leaves the goroutine: Interp.Run recovers it on goroutine 1, *)
(* the host program ends on another                                       *)
PoolCrash(g) ==
    /\ gors[g].status = "running"
    /\ gors[g].raise
    /\ Len(PStack(g)) = 0
    /\ gors' = [gors EXCEPT ![g].status = "crashed"]
    /\ UNCHANGED <<notPoolVars, fns, callForPool, pfrs, pdeferMap, pdeferCount, plog, psteps>>

(* Interp.Run("main") is in i.call(nil, mainFn, nil, nil): callFunction *)
(* is about to call allocFrame(nil) for main, an activation of f         *)
InitPool ==
    /\ fns = [fn \in FnNames |-> [used |-> 0, cached |-> FALSE, pool |-> {}]]
    /\ callForPool = DefaultCallForPool
    /\ pfrs = <<>>
    /\ gors = [g \in Goroutines |->
                 IF g = 1
                 THEN [stack |-> <<ActEntry("f", 0, 1)>>, raise |-> FALSE, status |-> "running"]
                 ELSE [stack |-> <<>>, raise |-> FALSE, status |-> "idle"]]
    /\ pdeferMap = [g \in Goroutines |-> 0]
    /\ pdeferCount = 0
    /\ plog = [calls |-> [fn \in FnNames |-> 0], acts |-> 1,
               last |-> [fr |-> 0, a |-> 0, fn |-> "", n |-> 0, u |-> 0, pooled |-> FALSE,
                         before |-> FreshFrame("f"), caller |-> 0],
               read |-> [fr |-> 0, a |-> 0, st |-> "", owner |-> 0],
               put |-> [fr |-> 0, pc |-> 0, d |-> 0, defers |-> 0, pooled |-> FALSE,
                        panicking |-> FALSE],
               tdf |-> [g |-> 0, fr |-> 0, n |-> 0],
               rec |-> [caller |-> 0, out |-> "", n |-> 0]]
    /\ psteps = 0

NextPool ==
    \/ \E count \in PoolCounts : PoolSetLeastCallForEnablePool(count)
    \/ \E g \in Goroutines :
          \/ LoadCached(g)
          \/ \E id \in 0..MaxActivations : PoolGetFrame(g, id)
          \/ AddUsed(g)
          \/ StoreCached(g)
          \/ PoolJump(g)
          \/ \E callee \in {"k", "native"} : PoolDefer(g, callee)
          \/ PoolGo(g)
          \/ \E callee \in FnNames : PoolCall(g, callee)
          \/ PoolCallNative(g)
          \/ PoolPanic(g)
          \/ PoolRecover(g)
          \/ PoolGoRecover(g)
          \/ GoneRecover(g)
          \/ PoolReturn(g)
          \/ PoolRunDefers(g)
          \/ PoolRunDefer(g)
          \/ PoolEndRunDefers(g)
          \/ ReadResults(g)
          \/ deleteFrame(g)
          \/ PoolCallback(g)
          \/ PoolNativeReturn(g)
          \/ PoolUnwind(g)
          \/ PoolRunPanicked(g)
          \/ PoolRunDeferPanicked(g)
          \/ PoolCrash(g)

----------------------------------------------------------------------------
(* makeCallMethodInstr: one call site `x.M()` on an interface value x,    *)
(* executed by two goroutines.  The step closure is made once and shared  *)
(* by every frame that executes the site; it captures `found` and `ext`.  *)
(*                                                                         *)
(* Receiver types: U is a type of the program whose method M is in        *)
(* interp.msets; E is a type of the program that has M from an embedded   *)
(* native type (findUserMethod); T1 and T2 are native types               *)
(* (findExternMethod); X is a native type whose method is not registered;  *)
(* RT is typeOfType, the type of a reflect.Type value, called with its     *)
(* method Method.                                                          *)

MaxDispatches == 2    \* executions of the call site by one goroutine

RecvTypes == {"U", "E", "T1", "T2", "X", "RT"}
Method(typ) == <<typ, "M">>
NoMethod == <<"", "">>

(* interp.msets[rtype][mname] *)
InMsets(typ) == typ \in {"U", "E"}
HasFn(typ) == typ = "U"

(* findUserMethod and findExternMethod: reflect's method of the type *)
findMethodValue(typ) ==
    IF typ = "X" THEN [ext |-> NoMethod, found |-> FALSE]
    ELSE [ext |-> Method(typ), found |-> TRUE]

(* findUserMethod: reflectx.MethodByName *)
findUserMethod(typ) == findMethodValue(typ)

(* findExternMethod without the functions kept for typeOfType *)
findExternMethodOfType(typ) == findMethodValue(typ)

(* findExternMethod: vfnMethod for the method Method of typeOfType, the *)
(* method reflect finds otherwise                                       *)
vfnMethod == <<"vfn", "Method">>
findExternMethod(typ) ==
    IF typ = "RT" THEN [ext |-> vfnMethod, found |-> TRUE]
    ELSE findMethodValue(typ)

DispatchIdle(g) == callers[g].pc = "idle" /\ callers[g].n < MaxDispatches

(* A frame of goroutine g reaches the call site: v := fr.reg(iv) *)
ReadReceiver(g, typ) ==
    /\ DispatchIdle(g)
    /\ callers' = [callers EXCEPT ![g].pc = "lookup", ![g].rtype = typ]
    /\ UNCHANGED <<notDispatchVars, site>>

(* The lookup in interp.msets: a method of the program is called at once *)
(* (callFunctionByStack), otherwise ext and found are assigned           *)
LookupMethod(g) ==
    /\ callers[g].pc = "lookup"
    /\ LET typ == callers[g].rtype
       IN IF InMsets(typ) /\ HasFn(typ)
          THEN /\ callers' = [callers EXCEPT ![g].pc = "idle", ![g].n = @ + 1,
                                             ![g].to = Method(typ), ![g].recv = typ]
               /\ site' = site
          ELSE /\ callers' = [callers EXCEPT ![g].pc = "check"]
               /\ site' = IF InMsets(typ) THEN findUserMethod(typ)
                                           ELSE findExternMethod(typ)
    /\ UNCHANGED notDispatchVars

(* `if !found { panic(fmt.Errorf("no code for method: ...")) }` *)
CheckFound(g) ==
    /\ callers[g].pc = "check"
    /\ callers' = [callers EXCEPT ![g].pc = IF site.found THEN "call" ELSE "panic"]
    /\ UNCHANGED <<notDispatchVars, site>>

(* interp.callExternalByStack(fr, ext, ir, ia) *)
CallExt(g) ==
    /\ callers[g].pc = "call"
    /\ callers' = [callers EXCEPT ![g].pc = "idle", ![g].n = @ + 1,
                                  ![g].to = site.ext, ![g].recv = callers[g].rtype]
    /\ UNCHANGED <<notDispatchVars, site>>

InitDispatch ==
    /\ site = [ext |-> NoMethod, found |-> FALSE]
    /\ callers = [g \in Goroutines |->
                    [pc |-> "idle", rtype |-> "", n |-> 0, to |-> NoMethod, recv |-> ""]]

NextDispatch ==
    \E g \in Goroutines :
        \/ \E typ \in RecvTypes : ReadReceiver(g, typ)
        \/ LookupMethod(g)
        \/ CheckFound(g)
        \/ CallExt(g)

----------------------------------------------------------------------------
(* Interp.callFunctionByStack: a caller calls functions declared with 0, 1, *)
(* 2 and 3 results; the callee frames come from Function.allocFrame, fresh  *)
(* or from the pool.                                                        *)

MaxCalls == 3       \* calls executed by the caller
CallArgs == {1, 2}
CallPoolCounts == {0, 1}

(* the functions of the program: the registers their Return instruction    *)
(* names, in declaration order of the results. The body of every function  *)
(* sets register 2 to a + 10 and register 3 to a + 20, a in register 1.    *)
CallFns ==
    [f0 |-> [Results |-> <<>>],
     f1 |-> [Results |-> <<2>>],
     f2 |-> [Results |-> <<3, 1>>],
     f3 |-> [Results |-> <<2, 1, 3>>]]

(* a value of a register of the caller: a plain value, or a tuple *)
Plain(v) == [tuple |-> FALSE, vs |-> <<v>>]
tuple(res) == [tuple |-> TRUE, vs |-> res]
Untouched == Plain(-1)

(* &frame{interp: p.Interp, pfn: p, block: p.Main} with an empty stack *)
CallNewFrame == [stack |-> <<0, 0, 0>>, results |-> <<>>, pc |-> 0, cached |-> FALSE]

(* Function.allocFrame of a single goroutine, then the arguments stored:   *)
(* fr.stack[i] = caller.reg(ia[i])                                         *)
CallAllocFrame(fn, a) ==
    /\ csite.phase = "idle"
    /\ csite.n < MaxCalls
    /\ LET p == cfns[fn]
           pooled == p.cached = 1 /\ p.pool # {}
       IN \E got \in IF pooled THEN p.pool ELSE {CallNewFrame} :
            LET reset == IF got.cached THEN [got EXCEPT !.pc = 0] ELSE got
            IN /\ cfns' = [cfns EXCEPT
                    ![fn].pool = IF pooled THEN @ \ {got} ELSE @,
                    ![fn].used = IF p.cached = 1 THEN @ ELSE @ + 1,
                    ![fn].cached = IF p.cached # 1 /\ p.used + 1 > csite.callForPool
                                   THEN 1 ELSE @]
               /\ csite' = [csite EXCEPT
                    !.phase = "run", !.fn = fn, !.a = a,
                    !.fr = [reset EXCEPT !.stack[1] = a],
                    !.pooled = pooled, !.before = csite.dest]
    /\ UNCHANGED notCallVars

(* frame.run: the body, then the Return instruction, which sets fr.results *)
(* only when it has results                                                *)
Return0(fr) == [fr EXCEPT !.pc = -1]
ReturnN(fr, ir) == [fr EXCEPT !.results = ir, !.pc = -1]

CallRun ==
    /\ csite.phase = "run"
    /\ LET fr == csite.fr
           body == [fr EXCEPT !.stack[2] = fr.stack[1] + 10,
                              !.stack[3] = fr.stack[1] + 20]
           ir == CallFns[csite.fn].Results
       IN csite' = [csite EXCEPT
                      !.phase = "ran",
                      !.fr = IF Len(ir) = 0 THEN Return0(body) ELSE ReturnN(body, ir)]
    /\ UNCHANGED <<notCallVars, cfns>>

(* the result wrapped in a tuple whatever the number of results *)
CallResultWrapped(fr, dest) ==
    IF Len(fr.results) >= 1
    THEN tuple([i \in 1..Len(fr.results) |-> fr.stack[fr.results[i]]])
    ELSE dest

(* the register of the caller after the call: n := len(fr.results) ...     *)
CallResult(fr, dest) ==
    LET n == Len(fr.results)
    IN IF n = 1 THEN Plain(fr.stack[fr.results[1]])
       ELSE IF n > 1 THEN tuple([i \in 1..n |-> fr.stack[fr.results[i]]])
       ELSE dest

CallSetReg ==
    /\ csite.phase = "ran"
    /\ csite' = [csite EXCEPT !.phase = "set", !.dest = CallResult(csite.fr, @)]
    /\ UNCHANGED <<notCallVars, cfns>>

(* Function.deleteFrame, and the caller goes on to its next instruction; *)
(* it may overwrite the register                                         *)
CallDeleteFrame(clear) ==
    /\ csite.phase = "set"
    /\ cfns' = [cfns EXCEPT ![csite.fn].pool =
                  IF cfns[csite.fn].cached = 1
                  THEN @ \cup {[csite.fr EXCEPT !.cached = TRUE]} ELSE @]
    /\ csite' = [csite EXCEPT !.phase = "idle", !.n = @ + 1,
                              !.dest = IF clear THEN Untouched ELSE @]
    /\ UNCHANGED notCallVars

(* Context.SetLeastCallForEnablePool before the program runs *)
CallSetLeastCallForEnablePool(count) ==
    /\ csite.phase = "idle" /\ csite.n = 0
    /\ \A fn \in DOMAIN CallFns : cfns[fn].used = 0
    /\ csite.callForPool # count
    /\ csite' = [csite EXCEPT !.callForPool = count]
    /\ UNCHANGED <<notCallVars, cfns>>

InitCall ==
    /\ cfns = [fn \in DOMAIN CallFns |-> [used |-> 0, cached |-> 0, pool |-> {}]]
    /\ csite = [phase |-> "idle", n |-> 0, fn |-> "f0", a |-> 0, fr |-> CallNewFrame,
                dest |-> Untouched, before |-> Untouched, pooled |-> FALSE,
                callForPool |-> 1]

NextCall ==
    \/ \E fn \in DOMAIN CallFns, a \in CallArgs : CallAllocFrame(fn, a)
    \/ CallRun
    \/ CallSetReg
    \/ \E clear \in BOOLEAN : CallDeleteFrame(clear)
    \/ \E count \in CallPoolCounts : CallSetLeastCallForEnablePool(count)

----------------------------------------------------------------------------
(* Calls whose callee may have no code: Interp.prepareCall and             *)
(* makeCallInstr, with the panic travelling to a deferred recover() of the *)
(* calling function and to the handler of Interp.Run.                      *)

MaxProgCalls == 3   \* calls executed by main

(* what a call names: a function of the program, a registered extern      *)
(* function, an extern function that is not registered, the init of an     *)
(* imported package that is not registered, a method found by one of the   *)
(* lookups, a method no lookup finds, and a function that calls panic(7)   *)
ProgCallees == {"function", "extern", "noextern", "pkginit", "method", "nomethod",
                "panics"}

errorString(msg) == [kind |-> "*errors.errorString", msg |-> msg]
NoProgPanic == [kind |-> "none", msg |-> ""]

(* prepareCall and makeCallInstr: the panic of the call, NoProgPanic when *)
(* there is code to call                                                  *)
prepareCall(callee) ==
    CASE callee = "noextern" -> errorString("no code for function")
      [] callee = "nomethod" -> errorString("no code for method")
      [] callee = "panics" -> [kind |-> "targetPanic", msg |-> "7"]
      [] OTHER -> NoProgPanic

(* the dynamic types that satisfy the interface runtime.Error *)
IsRuntimeError(p) == p.kind \in {"runtime.Error", "runtimeError"}

(* the type switch of doRecover: the value returned, or the panic of the *)
(* default branch                                                        *)
doRecoverValue(p) ==
    IF p.kind \in {"targetPanic", "string", "plainError", "*reflect.ValueError"}
       \/ IsRuntimeError(p)
    THEN [panics |-> FALSE, v |-> p]
    ELSE [panics |-> TRUE, v |-> [kind |-> "string", msg |-> "unexpected panic type"]]

(* the type switch of the handler of Interp.Run *)
ProgRunError(p) ==
    CASE p.kind = "none" -> [kind |-> "nil", of |-> p]
      [] p.kind = "targetPanic" -> [kind |-> "targetPanic", of |-> p]
      [] IsRuntimeError(p) -> [kind |-> "runtime.Error", of |-> p]
      [] p.kind \in {"string", "plainError"} -> [kind |-> "plainError", of |-> p]
      [] OTHER -> [kind |-> "unexpected type", of |-> p]

(* main registers a deferred closure that calls recover(), or none *)
ProgStart(hasDefer) ==
    /\ nocode.phase = "init"
    /\ nocode' = [nocode EXCEPT !.phase = "run", !.hasDefer = hasDefer]
    /\ UNCHANGED notNoCodeVars

(* a call instruction of main *)
ProgCall(callee) ==
    /\ nocode.phase = "run"
    /\ Len(nocode.calls) < MaxProgCalls
    /\ LET p == prepareCall(callee)
       IN nocode' = [nocode EXCEPT !.calls = Append(@, callee),
                               !.panicking = p, !.raised = p,
                               !.phase = IF p = NoProgPanic THEN "run"
                                         ELSE IF nocode.hasDefer THEN "defers"
                                         ELSE "unwound"]
    /\ UNCHANGED notNoCodeVars

(* frame.run intercepts the panic and runs the deferred closure, which    *)
(* calls recover(): doRecover takes the panic of main and returns it, or  *)
(* panics, and runDefer keeps that panic as the panic of main              *)
ProgRecover ==
    /\ nocode.phase = "defers"
    /\ LET r == doRecoverValue(nocode.panicking)
       IN nocode' = [nocode EXCEPT !.recovered = r.v, !.recoverPanicked = r.panics,
                               !.panicking = IF r.panics THEN r.v ELSE NoProgPanic,
                               !.phase = IF r.panics THEN "unwound" ELSE "run",
                               !.hasDefer = FALSE]
    /\ UNCHANGED notNoCodeVars

(* main returns, or its panic reaches the handler of Interp.Run *)
ProgRunEnd ==
    /\ nocode.phase \in {"run", "unwound"}
    /\ nocode' = [nocode EXCEPT !.phase = "done",
                            !.err = ProgRunError(nocode.panicking),
                            !.exitCode = IF nocode.panicking = NoProgPanic THEN 0 ELSE 2]
    /\ UNCHANGED notNoCodeVars

InitNoCode ==
    nocode = [phase |-> "init", hasDefer |-> FALSE, calls |-> <<>>,
            panicking |-> NoProgPanic, raised |-> NoProgPanic,
            recovered |-> NoProgPanic, recoverPanicked |-> FALSE,
            err |-> [kind |-> "nil", of |-> NoProgPanic], exitCode |-> 2]

NextNoCode ==
    \/ \E hasDefer \in BOOLEAN : ProgStart(hasDefer)
    \/ \E callee \in ProgCallees : ProgCall(callee)
    \/ ProgRecover
    \/ ProgRunEnd

----------------------------------------------------------------------------
(* unop: the unary operators -, ^ and ! on values of primitive types and   *)
(* of named types whose underlying type is primitive                       *)

MaxUnops == 2       \* UnOp instructions executed

(* the integer kinds of the model, their width and the operands tried *)
IntKinds ==
    [int8   |-> [signed |-> TRUE,  w |-> 8,  vals |-> {-128, -1, 0, 1, 127}],
     int16  |-> [signed |-> TRUE,  w |-> 16, vals |-> {-32768, -1, 0, 5, 32767}],
     uint8  |-> [signed |-> FALSE, w |-> 8,  vals |-> {0, 1, 127, 128, 255}],
     uint16 |-> [signed |-> FALSE, w |-> 16, vals |-> {0, 1, 255, 256, 65535}]]

(* a value: its reflect kind, whether its type is a named type of the  *)
(* program, and the integer or the bool it holds                        *)
IntValue(kind, named, v) == [kind |-> kind, named |-> named, v |-> v, b |-> FALSE]
BoolValue(named, b) == [kind |-> "bool", named |-> named, v |-> 0, b |-> b]
UnopOperands ==
    UNION {{IntValue(k, n, v) : n \in BOOLEAN, v \in IntKinds[k].vals} :
              k \in DOMAIN IntKinds}
    \cup {BoolValue(n, b) : n \in BOOLEAN, b \in BOOLEAN}

(* the conversion of an integer to a kind: the low w bits, as the kind *)
(* reads them                                                          *)
Wrap(kind, n) ==
    LET pow == 2 ^ IntKinds[kind].w
        u == n % pow
    IN IF IntKinds[kind].signed /\ u >= pow \div 2 THEN u - pow ELSE u

(* ^n of an integer of the kind *)
Complement(kind, n) ==
    IF IntKinds[kind].signed THEN -n - 1 ELSE 2 ^ IntKinds[kind].w - 1 - n

(* unop: the type switch on the primitive types and, in its default   *)
(* branch, reflection on the kind of the value:                        *)
(*   SUB  r.SetInt(-v.Int()), r.SetUint(-v.Uint())                     *)
(*   NOT  if v.Bool() { return v.Interface() }; r.SetBool(true)        *)
(*   XOR  r.SetInt(^r.Int()), r.SetUint(^r.Uint()), r the zero value   *)
unopArith(op, x) ==
    CASE op = "SUB" -> [x EXCEPT !.v = Wrap(x.kind, -x.v)]
      [] op = "NOT" ->
            IF ~x.named THEN [x EXCEPT !.b = ~x.b]
            ELSE IF x.b THEN x
            ELSE [x EXCEPT !.b = TRUE]
      [] op = "XOR" ->
            IF ~x.named THEN [x EXCEPT !.v = Complement(x.kind, x.v)]
            ELSE [x EXCEPT !.v = Wrap(x.kind, Complement(x.kind, 0))]

(* the operators the type checker admits for the operand *)
UnopsOf(x) == IF x.kind = "bool" THEN {"NOT"} ELSE {"SUB", "XOR"}

(* the UnOp instruction *)
UnOp(op, x) ==
    /\ nunops < MaxUnops
    /\ op \in UnopsOf(x)
    /\ nunops' = nunops + 1
    /\ unopd' = [op |-> op, x |-> x, res |-> unopArith(op, x)]
    /\ UNCHANGED notUnopVars

InitUnop ==
    /\ nunops = 0
    /\ unopd = [op |-> "NOT", x |-> BoolValue(FALSE, FALSE),
                res |-> unopArith("NOT", BoolValue(FALSE, FALSE))]

NextUnop ==
    \E op \in {"SUB", "XOR", "NOT"}, x \in UnopOperands : UnOp(op, x)

----------------------------------------------------------------------------
(* The binary arithmetic, bitwise and shift operators on integers: opADD,  *)
(* opSUB, opMUL, opQuo, opREM, opAND, opOR, opXOR, opANDNOT, opSHL, opSHR, *)
(* on operands of the primitive types int8 and uint8 (the type switch) and *)
(* of named types with these underlying types (reflection).                *)

MaxBinops == 1      \* BinOp instructions executed

BinKinds == {"int8", "uint8"}
BinOperands(kind) ==
    IF kind = "int8" THEN {-128, -7, -1, 0, 1, 3, 9, 127}
    ELSE {0, 1, 3, 9, 128, 255}
BinOps == {"ADD", "SUB", "MUL", "QUO", "REM", "AND", "OR", "XOR", "ANDNOT",
           "SHL", "SHR"}

(* x & y of two integers in two's complement, of any width that holds them *)
RECURSIVE BitAnd(_, _)
BitAnd(x, y) ==
    IF x = 0 \/ y = 0 THEN 0
    ELSE IF x = -1 THEN y
    ELSE IF y = -1 THEN x
    ELSE (x % 2) * (y % 2) + 2 * BitAnd(x \div 2, y \div 2)
BitNot(x) == -x - 1
BitOrInt(x, y) == BitNot(BitAnd(BitNot(x), BitNot(y)))
BitXor(x, y) == BitAnd(BitOrInt(x, y), BitNot(BitAnd(x, y)))

(* Go's / and % on integers: the quotient truncated toward zero *)
Abs(n) == IF n < 0 THEN -n ELSE n
Quo(x, y) == IF (x < 0) = (y < 0) THEN Abs(x) \div Abs(y) ELSE -(Abs(x) \div Abs(y))
Rem(x, y) == x - y * Quo(x, y)

(* x << y and x >> y of a 64-bit integer, their result taken modulo a    *)
(* power of two that divides 2^64 afterwards: a count of 64 or more      *)
(* shifts every bit out                                                  *)
Shl64(x, y) == IF y >= 64 THEN 0 ELSE x * 2 ^ y
Shr64(x, y) == IF y >= 64 THEN (IF x < 0 THEN -1 ELSE 0) ELSE x \div 2 ^ y

(* the operation on two integers of unbounded size *)
Arith(op, x, y) ==
    CASE op = "ADD" -> x + y
      [] op = "SUB" -> x - y
      [] op = "MUL" -> x * y
      [] op = "QUO" -> Quo(x, y)
      [] op = "REM" -> Rem(x, y)
      [] op = "AND" -> BitAnd(x, y)
      [] op = "OR" -> BitOrInt(x, y)
      [] op = "XOR" -> BitXor(x, y)
      [] op = "ANDNOT" -> BitAnd(x, BitNot(y))
      [] op = "SHL" -> Shl64(x, y)
      [] op = "SHR" -> Shr64(x, y)

(* the low 8 bits of n as the kind reads them *)
Wrap8(kind, n) ==
    LET u == n % 256
    IN IF kind = "int8" /\ u >= 128 THEN u - 256 ELSE u

(* reflect.Value.SetInt and SetUint that keep the 64-bit value *)
SetIntUntruncated(kind, n) == n

(* reflect.Value.SetInt and SetUint on a value of the kind: the 64-bit *)
(* argument is converted to the type of the value                        *)
SetInt(kind, n) == Wrap8(kind, n)

(* the outcome of an operator: a value of the operand's type, or a panic *)
BinValue(kind, named, v) == [panics |-> "", kind |-> kind, named |-> named, v |-> v]
BinPanic(msg) == [panics |-> msg, kind |-> "", named |-> FALSE, v |-> 0]

(* the case of the type switch for a primitive type: the operator of Go *)
(* on the 8-bit operands                                                *)
opPrimitive(op, kind, x, y) ==
    IF op \in {"SHL", "SHR"} /\ y >= 8
    THEN BinValue(kind, FALSE, IF op = "SHR" /\ x < 0 THEN -1 ELSE 0)
    ELSE BinValue(kind, FALSE, Wrap8(kind, Arith(op, x, y)))

(* the default case: vx.Int() and vy.Int(), or vx.Uint() and vy.Uint(), *)
(* the operator on the 64-bit integers, and r.SetInt or r.SetUint on a   *)
(* new value of the operand's type                                       *)
opReflect(op, kind, x, y) ==
    BinValue(kind, TRUE, SetInt(kind, Arith(op, x, y)))

(* opADD ... opSHR: asUint64 of the shift count first; a division by zero *)
(* is the panic of the host                                               *)
binop(op, kind, named, x, y) ==
    IF op \in {"SHL", "SHR"} /\ y < 0
    THEN BinPanic("negative shift amount")
    ELSE IF op \in {"QUO", "REM"} /\ y = 0
    THEN BinPanic("integer divide by zero")
    ELSE IF named THEN opReflect(op, kind, x, y)
    ELSE opPrimitive(op, kind, x, y)

(* the BinOp instruction *)
ArithBinOp(op, kind, named, x, y) ==
    /\ nbinops < MaxBinops
    /\ nbinops' = nbinops + 1
    /\ binopd' = [op |-> op, kind |-> kind, named |-> named, x |-> x, y |-> y,
                  res |-> binop(op, kind, named, x, y)]
    /\ UNCHANGED notBinopVars

InitBinop ==
    /\ nbinops = 0
    /\ binopd = [op |-> "ADD", kind |-> "int8", named |-> FALSE, x |-> 0, y |-> 0,
                 res |-> binop("ADD", "int8", FALSE, 0, 0)]

NextBinop ==
    \E op \in BinOps, kind \in BinKinds, named \in BOOLEAN :
        \E x, y \in BinOperands(kind) : ArithBinOp(op, kind, named, x, y)

----------------------------------------------------------------------------
(* The Slice instruction, x[lo:hi] and x[lo:hi:max], on a string, a slice, *)
(* an array and a pointer to an array; the pointer may be an Alloc of the  *)
(* function (a local array variable, or the array of a make with constant  *)
(* capacity), which the instruction takes for the make-slice context.      *)

MaxSlices == 1      \* Slice instructions executed
MaxSliceCap == 2    \* capacity of the operands

SliceKinds == {"string", "slice", "array", "ptr"}
NilIndex == [nil |-> TRUE, v |-> 0]
Idx(v) == [nil |-> FALSE, v |-> v]
SliceIndexes == {NilIndex} \cup {Idx(v) : v \in -1..(MaxSliceCap + 1)}

(* the operands: kind, len and cap (equal but for a slice), and whether *)
(* instr.X is an ssa.Alloc                                              *)
SliceOperands ==
    {x \in [kind : SliceKinds, Len : 0..MaxSliceCap, Cap : 0..MaxSliceCap,
            alloc : BOOLEAN] :
        /\ x.Len <= x.Cap
        /\ x.kind # "slice" => x.Len = x.Cap
        /\ x.alloc => x.kind = "ptr"}

SliceOk(lo, hi, max) == [panics |-> "", msg |-> "", Len |-> hi - lo, Cap |-> max - lo]
SlicePanic(kind, msg) == [panics |-> kind, msg |-> msg, Len |-> 0, Cap |-> 0]

(* reflect.Value.Slice3 and, for a string, Value.Slice: they panic with a *)
(* string when the indexes are out of bounds                              *)
reflectSlice(x, lo, hi, max) ==
    IF 0 <= lo /\ lo <= hi /\ hi <= max /\ max <= x.Cap
    THEN SliceOk(lo, hi, IF x.kind = "string" THEN hi ELSE max)
    ELSE SlicePanic("string", "reflect: slice index out of bounds")

(* makesliceCheck: whether instr.X is an ssa.Alloc *)
makesliceCheck(x) == x.alloc

(* slice(fr, instr, makesliceCheck, ix, ih, il, im) *)
slice(x, il, ih, im) ==
    LET lo == IF il.nil THEN 0 ELSE il.v
        hi == IF ih.nil THEN x.Len ELSE ih.v
        max == IF im.nil THEN x.Cap ELSE im.v
        slice3 == ~im.nil
        bounds == "slice bounds out of range"
    IN IF makesliceCheck(x)
       THEN IF hi < 0 THEN SlicePanic("runtimeError", "makeslice: len out of range")
            ELSE IF hi > max THEN SlicePanic("runtimeError", "makeslice: cap out of range")
            ELSE reflectSlice(x, lo, hi, max)
       ELSE IF slice3
       THEN IF max < 0 \/ max > x.Cap \/ hi < 0 \/ hi > max \/ lo < 0 \/ lo > hi
            THEN SlicePanic("runtimeError", bounds)
            ELSE reflectSlice(x, lo, hi, max)
       ELSE IF hi < 0 \/ hi > x.Cap \/ lo < 0 \/ lo > hi
            THEN SlicePanic("runtimeError", bounds)
            ELSE reflectSlice(x, lo, hi, max)

(* the Slice instruction; the type checker admits no third index on a *)
(* string                                                             *)
Slice(x, il, ih, im) ==
    /\ nslices < MaxSlices
    /\ x.kind = "string" => im.nil
    /\ nslices' = nslices + 1
    /\ sliced' = [x |-> x, lo |-> il, hi |-> ih, max |-> im, res |-> slice(x, il, ih, im)]
    /\ UNCHANGED <<made, notSliceVars>>

(* the memory limit of init, on a build with 32-bit int *)
maxMemLen == 2147483647

MakeLens == (-1..(MaxSliceCap + 1)) \cup {maxMemLen - 1, maxMemLen}

(* reflect.MakeSlice: it panics with a string on a negative len, a *)
(* negative cap and on len > cap                                   *)
reflectMakeSlice(ln, cp) ==
    IF ln < 0 THEN SlicePanic("string", "reflect.MakeSlice: negative len")
    ELSE IF cp < 0 THEN SlicePanic("string", "reflect.MakeSlice: negative cap")
    ELSE IF ln > cp THEN SlicePanic("string", "reflect.MakeSlice: len > cap")
    ELSE [panics |-> "", msg |-> "", Len |-> ln, Cap |-> cp]

(* the closure of the MakeSlice instruction *)
makeSlice(ln, cp) ==
    IF ln < 0 \/ ln >= maxMemLen
    THEN SlicePanic("runtimeError", "makeslice: len out of range")
    ELSE IF cp < 0 \/ cp >= maxMemLen
    THEN SlicePanic("runtimeError", "makeslice: cap out of range")
    ELSE reflectMakeSlice(ln, cp)

(* the MakeSlice instruction: make([]T, len, cap) with a capacity that is *)
(* not a constant                                                         *)
MakeSlice(ln, cp) ==
    /\ nslices < MaxSlices
    /\ nslices' = nslices + 1
    /\ made' = [done |-> TRUE, Len |-> ln, Cap |-> cp, res |-> makeSlice(ln, cp)]
    /\ UNCHANGED <<sliced, notSliceVars>>

InitSlice ==
    /\ nslices = 0
    /\ sliced = [x |-> [kind |-> "string", Len |-> 0, Cap |-> 0, alloc |-> FALSE],
                 lo |-> NilIndex, hi |-> NilIndex, max |-> NilIndex,
                 res |-> SliceOk(0, 0, 0)]
    /\ made = [done |-> FALSE, Len |-> 0, Cap |-> 0, res |-> SliceOk(0, 0, 0)]

NextSlice ==
    \/ \E x \in SliceOperands, il, ih, im \in SliceIndexes : Slice(x, il, ih, im)
    \/ \E ln, cp \in MakeLens : MakeSlice(ln, cp)

----------------------------------------------------------------------------
(* The Go instruction and the goroutine counter of the interpreter.  The   *)
(* main goroutine is 0; the spawned goroutines are numbered in the order   *)
(* of their Go steps.                                                      *)

MaxGos == 4    \* goroutines spawned

GoIds == 1..MaxGos
NoGo == [st |-> "none", by |-> 0]

(* the goroutines that run: main and the spawned ones that have not ended *)
Live == {g \in GoIds : gor[g].st = "running"}
Spawners == {0} \cup Live
Spawned == {g \in GoIds : gor[g].st # "none"}

(* the closure of the Go instruction, run by goroutine p: the counter is *)
(* incremented and the goroutine is started                              *)
Go(p) ==
    /\ ~died
    /\ p \in Spawners
    /\ Cardinality(Spawned) < MaxGos
    /\ goroutines' = goroutines + 1
    /\ gor' = [gor EXCEPT ![Cardinality(Spawned) + 1] = [st |-> "running", by |-> p]]
    /\ UNCHANGED <<died, notGoVars>>

(* callDiscardsResult returns in goroutine g: the counter is decremented *)
(* and the goroutine ends                                                *)
GoReturn(g) ==
    /\ ~died
    /\ g \in Live
    /\ goroutines' = goroutines - 1
    /\ gor' = [gor EXCEPT ![g].st = "returned"]
    /\ UNCHANGED <<died, notGoVars>>

(* the function of goroutine g, or one it calls, calls runtime.Goexit:   *)
(* the goroutine ends inside callDiscardsResult and the statement after  *)
(* it, which is not deferred, is not run                                 *)
GoGoexit(g) ==
    /\ ~died
    /\ g \in Live
    /\ gor' = [gor EXCEPT ![g].st = "goexit"]
    /\ UNCHANGED <<goroutines, died, notGoVars>>

(* callDiscardsResult panics in goroutine g: nothing recovers the panic, *)
(* and the process dies with all its goroutines                          *)
GoPanic(g) ==
    /\ ~died
    /\ g \in Live
    /\ gor' = [gor EXCEPT ![g].st = "panicked"]
    /\ died' = TRUE
    /\ UNCHANGED <<goroutines, notGoVars>>

(* NewInterp *)
InitGo ==
    /\ goroutines = 1
    /\ gor = [g \in GoIds |-> NoGo]
    /\ died = FALSE

NextGo ==
    \/ \E p \in {0} \cup GoIds : Go(p)
    \/ \E g \in GoIds : GoReturn(g) \/ GoGoexit(g) \/ GoPanic(g)

----------------------------------------------------------------------------
(* Specifications *)

Init ==
    /\ InitDefer /\ InitOverride /\ InitAlloc /\ InitMap /\ InitSelect
    /\ InitPipe /\ InitAssert /\ InitCmp /\ InitRunner
    /\ InitPrint /\ InitReg /\ InitPhi /\ InitPool
    /\ InitDispatch /\ InitCall /\ InitNoCode
    /\ InitUnop /\ InitBinop /\ InitSlice /\ InitGo

Spec == Init /\ [][Next]_vars

SpecOverride == Init /\ [][NextOverride]_vars

SpecAlloc == Init /\ [][NextAlloc]_vars

SpecMap == Init /\ [][NextMap]_vars

SpecSelect == Init /\ [][NextSelect]_vars

(* the goroutines of the channel program are scheduled fairly by the host *)
SpecPipe == Init /\ [][NextPipe]_vars /\ WF_vars(NextPipe)

SpecAssert == Init /\ [][NextAssert]_vars

SpecCmp == Init /\ [][NextCmp]_vars

SpecRunner == Init /\ [][NextRunner]_vars

SpecPrint == Init /\ [][NextPrint]_vars

SpecReg == Init /\ [][NextReg]_vars
SpecPhi == Init /\ [][NextPhi]_vars
SpecPool == Init /\ [][NextPool]_vars
SpecDispatch == Init /\ [][NextDispatch]_vars
SpecCall == Init /\ [][NextCall]_vars
SpecNoCode == Init /\ [][NextNoCode]_vars
SpecUnop == Init /\ [][NextUnop]_vars
SpecBinop == Init /\ [][NextBinop]_vars
SpecSlice == Init /\ [][NextSlice]_vars
SpecGo == Init /\ [][NextGo]_vars

----------------------------------------------------------------------------
(* Properties of the defer, panic and recover machinery *)

RECURSIVE Descending(_)
Descending(n) == IF n = 0 THEN <<>> ELSE <<n>> \o Descending(n - 1)
IsPrefix(s, t) == Len(s) <= Len(t) /\ SubSeq(t, 1, Len(s)) = s
Ended(f) == f.phase = "done"

(* C1: a frame that registered the deferred calls 1..n in that order runs *)
(* them in the order n..1 when it ends, each once, whether it returns or  *)
(* panics: what has run so far is a prefix of n..1, and all of it at the  *)
(* end of the frame.  Stated for the programs that never call os.Exit.    *)
C1_DefersRunInReverseOrder ==
    hist.exits = 0 =>
    \A i \in DOMAIN frames :
        /\ IsPrefix(frames[i].ran, Descending(Len(frames[i].defers)))
        /\ Ended(frames[i]) => frames[i].ran = Descending(Len(frames[i].defers))

(* A program panic (not the exit request of os.Exit) *)
IsPanic(p) == p.kind \in {"targetPanic", "string"}

(* The last recover() was called directly by a function that a frame *)
(* deferred which was panicking at that moment                        *)
CalledByDeferredOfPanicking ==
    /\ ~rlog.asDeferred
    /\ rlog.dby # 0
    /\ IsPanic(rlog.dpanic)

(* C2: recover() returns the current panic value if and only if it is called *)
(* directly by a function deferred by the panicking frame; in every other    *)
(* case it returns nil and changes no panicking record.  Stated for the      *)
(* programs that never call os.Exit.                                         *)
C2_RecoverIffCalledByDeferred ==
    (rlog.n > 0 /\ hist.exits = 0) =>
        IF CalledByDeferredOfPanicking
        THEN rlog.ret = RecoverValue(rlog.dpanic) /\ ~rlog.raised
        ELSE rlog.ret = NilValue /\ ~rlog.cleared /\ ~rlog.raised

(* C3: a program that calls os.Exit(n) ends the run with exit code n and a *)
(* nil error, whatever deferred calls are pending in the unwound frames.   *)
(* Stated for the programs that call os.Exit once.                         *)
C3_ExitCodeOfOsExit ==
    (runDone /\ hist.exits = 1) => (exitCode = hist.firstExit /\ err = NoErr)

(* How the entry frame (the frame Interp.Run started) ended *)
EntryReturned == frames[1].via \in {"return", "recover"}
EntryPanicked == frames[1].via = "panic"

(* C4: Interp.Run returns exit code 0 and a nil error when the entrypoint *)
(* returns normally, and exit code 2 with a non-nil error carrying the    *)
(* panic value when a panic escapes the entrypoint; a program whose one   *)
(* panic has the value 30, never recovered, yields the error              *)
(* targetPanic{30}, whose text is that of 30.                             *)
C4_RunResult ==
    runDone =>
        /\ EntryReturned => (exitCode = 0 /\ err = NoErr)
        /\ (EntryPanicked /\ IsPanic(hist.escaped)) =>
              (exitCode = 2 /\ err # NoErr /\ err.v = hist.escaped.v)
        /\ (EntryPanicked /\ hist.escaped.kind = "targetPanic") =>
              err = targetPanic(hist.escaped.v)
        /\ (EntryPanicked /\ hist.panics = 1 /\ hist.exits = 0) =>
              err = targetPanic(30)

(* The run ended with the panic 30 of a callee of the entrypoint *)
C4_PanicEscaped ==
    /\ runDone
    /\ EntryPanicked
    /\ Len(frames) > 1
    /\ hist.panics = 1 /\ hist.exits = 0
    /\ exitCode = 2
    /\ err = targetPanic(30)

(* The panic of frame f was recovered by one of its deferred calls and f *)
(* has not panicked again since                                          *)
Recovered(f) == f.recd

(* The frame ends in this step *)
FrameEnds(i) == ~Ended(frames[i]) /\ Ended(frames'[i])

(* The frame on top ends normally and its caller goes on: no panic is in *)
(* flight and the caller is at its next instruction (pc was advanced at  *)
(* the call), at its next deferred call, or is the native function or    *)
(* Interp.Run that called the frame                                      *)
CallerContinues ==
    /\ raise' = NoPanic
    /\ gostack' = Pop
    /\ Len(Pop) > 0 =>
          LET e == Pop[Len(Pop)]
          IN \/ e.k = "nat"
             \/ /\ e.k = "fr" /\ frames[e.id].phase = "run"
                /\ frames'[e.id] = frames[e.id]
             \/ /\ e.k = "fr" /\ InDefers(frames[e.id])
                /\ frames'[e.id] = [frames[e.id] EXCEPT !.d = @ + 1]

(* A recovered frame has stopped panicking; when it has ended, all its *)
(* deferred calls have run in the pass in which the panic was recovered *)
RecoveredFrameRunsDefers ==
    \A i \in DOMAIN frames :
        Recovered(frames[i]) =>
            /\ frames[i].panicking = NoPanic
            /\ Ended(frames[i]) => frames[i].pass = Descending(Len(frames[i].defers))

(* A program whose only panic is recovered ends with exit code 0 *)
RecoveredProgramExitsZero ==
    (runDone /\ hist.panics = 1 /\ hist.recovers = 1 /\ hist.exits = 0) =>
        (exitCode = 0 /\ err = NoErr)

RecoveredFrameReturnPath ==
    \A i \in DOMAIN frames :
        (Recovered(frames[i]) /\ Ended(frames[i])) =>
            frames[i].via = IF frames[i].handled THEN "recover" ELSE "return"

(* C7 (amended): when a deferred call of a panicking frame recovers the     *)
(* panic, the frame stops panicking, its remaining deferred calls still run, *)
(* the frame returns normally to its caller and the caller continues with   *)
(* its next step; the frame returns through its recover path when frame.run *)
(* intercepted the panic, and through the Return after RunDefers when the   *)
(* panic was raised by a deferred call during the RunDefers of a normal     *)
(* return; a program whose only panic is recovered ends with exit code 0.   *)
C7_RecoveredFrameReturns ==
    /\ [](RecoveredFrameRunsDefers /\ RecoveredFrameReturnPath
            /\ RecoveredProgramExitsZero)
    /\ [][\A i \in DOMAIN frames :
            (FrameEnds(i) /\ Recovered(frames'[i])) => CallerContinues]_vars

(* C7 as stated: every recovered frame returns through its recover path *)
C7_RecoveredFrameReturnsByRecoverPath ==
    /\ RecoveredFrameRunsDefers
    /\ RecoveredProgramExitsZero
    /\ \A i \in DOMAIN frames :
          (Recovered(frames[i]) /\ Ended(frames[i])) => frames[i].via = "recover"

(* A function called by the entrypoint deferred two functions and panicked; *)
(* the deferred function that ran first recovered the panic, the second one *)
(* ran, the frame returned by its recover path and the run ended with 0     *)
C7_RecoveredAndReturned ==
    /\ runDone /\ exitCode = 0 /\ err = NoErr
    /\ hist.panics = 1 /\ hist.recovers = 1
    /\ \E i, c, c2 \in DOMAIN frames :
          /\ frames[i].caller = 1 /\ frames[i].deferredBy = 0
          /\ frames[i].handled /\ Recovered(frames[i])
          /\ frames[i].via = "recover"
          /\ frames[i].pass = <<2, 1>>
          /\ c < c2
          /\ frames[c].deferredBy = i /\ frames[c2].deferredBy = i
          /\ rlog.c = c /\ rlog.cleared /\ ~rlog.raised
          /\ rlog.ret = RecoverValue(targetPanic(30))

----------------------------------------------------------------------------
(* Properties of the override of functions *)

----------------------------------------------------------------------------
(* Properties of Alloc *)

(* C6: a stack-allocated local is zero-initialized every time its Alloc  *)
(* step runs, in each loop iteration and in each reuse of a pooled frame: *)
(* right after the step it reads as the zero value, so the sum computed  *)
(* by the program is the sum of the literals as written (a field that a  *)
(* literal does not name is 0), and with T{i, 3} in each of the three    *)
(* iterations the program obtains 9 and does not panic.                  *)
C6_AllocZeroInitializes ==
    /\ amain.phase = "lit" => heap[amain.reg] = ZeroT
    /\ (acall # <<>> /\ acall[1].pc = "store") => heap[acall[1].reg] = ZeroT
    /\ amain.phase \in {"alloc", "end", "done"} => amain.n = amain.expect
    /\ (amain.phase = "done" /\ amain.lits = <<"both", "both", "both">>) =>
          (amain.n = 9 /\ amain.err = NoErr)

(* The third Alloc in main has just zeroed a box that held T{1, 3}, after *)
(* the method ran in a frame taken from the pool                          *)
C6_ZeroedAfterReuse ==
    /\ amain.phase = "lit"
    /\ amain.i = 2
    /\ amain.lits = <<"both", "both">>
    /\ heap[amain.reg] = ZeroT
    /\ afn.reused >= 1
    /\ amain.n = 3

----------------------------------------------------------------------------
(* Properties of maps *)

(* C8: a comma-ok lookup returns (zero value, false) when the key is absent *)
(* and (the stored value, true) when it is present, after any sequence of   *)
(* stores and deletes on the map.  Stated for the map with int keys.        *)
C8_LookupCommaOk ==
    (mkind = "plain" /\ mlog.n > 0) =>
        (mlog.ok = mlog.goOk /\ mlog.rv = mlog.goV)

(* The keys present in the map that belong to the class of a *)
ClassEntries(a) == {k \in MapKeys : k.a = a}

(* C9: for a map whose key type is a struct with a blank field, after any   *)
(* sequence of stores and lookups by any functions of the program, the map  *)
(* holds at most one entry per class of keys that differ only in the blank  *)
(* field, and a lookup with any key of a class finds the value stored under *)
(* any other key of the class.  Stated for the sequences that store no nil  *)
(* and delete nothing.                                                      *)
C9_BlankFieldKeys ==
    (mkind = "blank" /\ mlog.nilStores = 0 /\ mlog.deletes = 0) =>
        /\ \A a \in FieldVals : Cardinality(ClassEntries(a)) <= 1
        /\ mlog.n > 0 => (mlog.ok = mlog.goOk /\ mlog.rv = mlog.goV)

----------------------------------------------------------------------------
(* Properties of Select *)

Completed == sel.status \in {"done", "panicked"}

(* C10: a non-blocking select none of whose cases is ready completes at    *)
(* once with the default branch, chosen index -1; a blocking select does   *)
(* not complete until at least one of its cases is ready, and then         *)
(* completes with a case that is ready (index 0 for the first state).      *)
C10_SelectDefaultAndBlocking ==
    /\ [](/\ (sel.status = "waiting" /\ ~sel.blocking) => ENABLED SelectReturn
          /\ (Completed /\ ~sel.blocking /\ sel.ready = {}) => sel.chosen = -1
          /\ (Completed /\ sel.ready # {}) => sel.chosen + 1 \in sel.ready
          /\ (Completed /\ sel.blocking) => sel.ready # {})
    /\ [][Blocked => sel'.status = "waiting"]_vars

(* A blocking select on a receive waited until another goroutine sent, *)
(* and completed with that case and the value sent                     *)
C10_BlockedThenReceived ==
    /\ sel.status = "done"
    /\ sel.blocking /\ sel.blocked
    /\ sel.states = <<SelectState(2, "recv"), SelectState(1, "recv")>>
    /\ sel.chosen = 1
    /\ sel.recvOk /\ sel.recv = 5


----------------------------------------------------------------------------
(* C11: the receiver of a buffered channel obtains the values of the       *)
(* sender in send order; once the sender has closed the channel the        *)
(* receive does not block, and after the last value it yields the zero     *)
(* value of the element type with ok = false; the program then terminates  *)
(* with exit code 0.                                                       *)
ReceiverEnded == receiver.pc \in {"return", "exited"}

C11_ChannelDeliversInOrder ==
    /\ [](/\ IsPrefix(receiver.got, sender.sent)
          /\ ReceiverEnded =>
                /\ receiver.got = sender.sent
                /\ receiver.last =
                     [v |-> IF pipe.elem = "int" THEN Val(0) ELSE Nil,
                      ok |-> FALSE]
          /\ receiver.pc = "exited" => receiver.exitCode = 0
          /\ (receiver.pc = "recv" /\ pipe.closed) => ENABLED MainRecv)
    /\ <>(receiver.pc = "exited")

(* the sender filled the buffer, and the receiver got every value and left *)
C11_AllReceivedAndExited ==
    /\ receiver.pc = "exited"
    /\ Len(sender.sent) > pipe.size
    /\ receiver.got = sender.sent
    /\ \E i, j \in 1..Len(receiver.got) : receiver.got[i] # receiver.got[j]


----------------------------------------------------------------------------
(* C12: x.(T) without comma-ok, on an interface operand whose dynamic      *)
(* type is not T (for an interface T: does not implement T), a nil         *)
(* interface included, panics with a RuntimeError whose message includes   *)
(* "interface conversion".                                                 *)
AssertionHolds(typ, x) ==
    /\ ~x.nil
    /\ IF Types[typ].iface
       THEN Types[typ].methods \subseteq Types[x.typ].methods
       ELSE x.typ = typ

C12_FailedAssertPanicsRuntimeError ==
    (nasserts > 0 /\ ~tassert.CommaOk /\ ~AssertionHolds(tassert.typ, tassert.x))
        => /\ tassert.res.panics
           /\ tassert.res.err.kind = "runtimeError"
           /\ tassert.res.err.msg = "interface conversion"


----------------------------------------------------------------------------
(* C13: a comparison with the nil constant on either side, x == nil, is    *)
(* true exactly when x is nil in Go: an operand of slice, map, func, chan, *)
(* pointer or unsafe pointer type when its value is nil, an operand of     *)
(* interface type when the interface itself is nil (an interface holding   *)
(* a nil pointer, slice, map, func or chan is not nil); x != nil is the    *)
(* negation.                                                               *)
EqualsNil(v) == IF v.static = "Interface" THEN v.kind = "Invalid" ELSE v.isnil

C13_NilComparison ==
    ncmps > 0 => cmp.res = IF cmp.op = "EQL" THEN EqualsNil(cmp.v)
                                             ELSE ~EqualsNil(cmp.v)

(* C13 as stated: x == nil is true exactly when the reflected value of x   *)
(* is nil                                                                  *)
C13_NilIffReflectedValueNil ==
    ncmps > 0 => cmp.res = IF cmp.op = "EQL" THEN IsNil(cmp.v) ELSE ~IsNil(cmp.v)

(* an interface holding a nil pointer was compared with nil: not equal *)
C13_InterfaceHoldingNilPointer ==
    /\ ncmps > 0 /\ cmp.op = "EQL"
    /\ cmp.v = Operand("Interface", "Ptr", TRUE)
    /\ cmp.res = FALSE


----------------------------------------------------------------------------
(* C14: a run of a program that has no entrypoint function main (and is    *)
(* sound otherwise) ends with exit code 1 and an error, whether it was     *)
(* started by Interp.Run, Context.Run or Context.RunFile.                  *)
NoEntrypoint(prog) ==
    /\ prog.loads /\ prog.name = "main" /\ ~prog.checkFails /\ ~prog.initPanics
    /\ ~prog.hasMain

C14_NoEntrypointExitsOne ==
    (/\ runner.pc = "done"
     /\ runner.api \in {"Interp.Run", "Context.Run(dir)", "Context.Run(.go)",
                        "Context.RunFile"}
     /\ NoEntrypoint(runner.prog))
        => runner.exitCode = 1 /\ runner.err # NilErr


(* C15: when the initialization of the package fails (the static check of  *)
(* NewInterp fails, or init panics), a run started by RunPkg or TestPkg    *)
(* never calls the entrypoint main, and it ends with exit code 2 and an    *)
(* error, which is prefixed "init error: " when init panicked.             *)
InitFails(prog) == prog.checkFails \/ prog.initPanics

C15_InitFailureSkipsMain ==
    (/\ runner.pc # "idle"
     /\ runner.api \in {"Context.RunPkg", "Context.TestPkg"}
     /\ InitFails(runner.prog))
        => /\ runner.mainCalls = 0
           /\ runner.pc = "done" =>
                /\ runner.exitCode = 2
                /\ runner.err # NilErr
                /\ ~runner.prog.checkFails => runner.err.wrap = "init error: "


----------------------------------------------------------------------------
(* C16: after ctx.SetPrintOutput(buf) every byte written by the builtins   *)
(* print and println is appended to buf and none is written to the         *)
(* standard output of the process.                                         *)
C16_PrintGoesToBuffer ==
    out.output => out.buf = out.since /\ out.stdoutSince = <<>>


----------------------------------------------------------------------------
(* C17: every call of regIndex for an SSA value of a function returns the  *)
(* Register that the first call returned, and two different frame-local    *)
(* values of one function never have the same Register.                    *)
C17_RegIndexStableAndInjective ==
    /\ rhist.call.again =>
          rhist.call.reg = rhist.first[<<rhist.call.p, rhist.call.v>>]
    /\ \A p \in Fns : \A v \in SSAValues(p) :
          <<p, v>> \in DOMAIN rhist.first =>
              regIndex(p, v).reg = rhist.first[<<p, v>>]
    /\ \A p \in Fns : \A v, w \in DOMAIN pfns[p].stackIndex :
          v # w => pfns[p].stackIndex[v] # pfns[p].stackIndex[w]

(* regIndex was called again for a local value after a second local value  *)
(* of the function had its Register                                        *)
C17_CalledAgain ==
    /\ rhist.call.again
    /\ rhist.call.v \in SSALocals(rhist.call.p)
    /\ Cardinality(DOMAIN pfns[rhist.call.p].stackIndex) >= 2

(* C18: the Register of every constant, global and interpreted function    *)
(* has non-zero kind bits; the slot of the static stack it names holds the *)
(* value admitted with it whatever the frames do, and every read of the    *)
(* Register by a frame returns that value.                                 *)
C18_StaticRegistersAreStable ==
    /\ \A p \in Fns : \A v \in SSAConsts \cup SSAGlobals \cup Fns :
          <<p, v>> \in DOMAIN rhist.first => Kind(rhist.first[<<p, v>>]) # 0
    /\ \A v \in DOMAIN istack.stackIndex :
          /\ Kind(istack.stackIndex[v]) # 0
          /\ istack.stack[Index(istack.stackIndex[v]) + 1] = <<"static", v>>
    /\ (rhist.read.done /\ rhist.read.v \in SSAConsts \cup SSAGlobals \cup Fns) =>
          rhist.read.val = <<"static", rhist.read.v>>

(* a frame wrote a local register and then read a static one *)
C18_StaticReadAfterLocalWrite ==
    /\ rhist.read.done
    /\ rhist.read.v \in SSAConsts \cup SSAGlobals \cup Fns
    /\ \E i \in 1..Len(rframes[rhist.read.p]) : rframes[rhist.read.p][i] # NilSlot


(* C19: in one activation every deferred call that a Defer instruction     *)
(* registered runs at most once, and exactly once by the end of the frame, *)
(* whether the frame returns, its body panics, or one of its deferred      *)
(* calls panics during the RunDefers of the return.  Stated for the        *)
(* programs that never call os.Exit.                                       *)
TimesRan(f, d) == Cardinality({k \in DOMAIN f.ran : f.ran[k] = d})

C19_DeferredCallsRunOnce ==
    hist.exits = 0 =>
    \A i \in DOMAIN frames : \A d \in DOMAIN frames[i].defers :
        /\ TimesRan(frames[i], d) <= 1
        /\ Ended(frames[i]) => TimesRan(frames[i], d) = 1


(* C20: when a deferred call of a frame panics, the panicking record of    *)
(* the frame becomes the new panic value, and the deferred calls that      *)
(* remain still run, in their order: every pass of runDefers runs the      *)
(* deferred calls n..1, all of them by its end.                            *)
C20_DeferredPanicReplacesAndContinues ==
    /\ [][(Unwinding /\ TopIsFrame /\ InDefers(Cur)) =>
              /\ frames'[Top.id].panicking = raise
              /\ frames'[Top.id].d = Cur.d + 1
              /\ gostack' = gostack]_vars
    /\ [](\A i \in DOMAIN frames :
            InDefers(frames[i]) =>
                /\ IsPrefix(frames[i].pass, Descending(Len(frames[i].defers)))
                /\ frames[i].d > Len(frames[i].defers) =>
                      frames[i].pass = Descending(Len(frames[i].defers)))

(* a frame that panicked with 30 ran its two deferred calls: the first one *)
(* panicked with 37, which replaced 30, and the second one returned        *)
C20_SecondDeferredRanAfterPanic ==
    \E i, j, k \in DOMAIN frames :
        /\ frames[i].handled /\ InDefers(frames[i])
        /\ frames[i].d > Len(frames[i].defers)
        /\ frames[i].pass = <<2, 1>>
        /\ frames[i].panicking.v = 37
        /\ j < k
        /\ frames[j].deferredBy = i /\ frames[j].via = "panic"
        /\ frames[k].deferredBy = i /\ frames[k].via = "return"


(* C21: a frame that holds deferred calls and leaves by a panic leaves from *)
(* the tail of runDefers: every deferred call of the frame has run in that  *)
(* pass, and the value re-raised to the caller is the value of the latest   *)
(* panic that reached the frame (whether or not a deferred call recovered   *)
(* an earlier one).                                                         *)
Reraised(i) ==
    /\ i <= Len(frames)
    /\ frames[i].via = "live"
    /\ frames'[i].via = "panic"
    /\ frames[i].rec = "yes"

C21_ReraisedAfterAllDefers ==
    [][\A i \in 1..Len(frames) :
          Reraised(i) =>
              /\ frames[i].d > Len(frames[i].defers)
              /\ \A k \in 1..Len(frames[i].defers) :
                    \E j \in 1..Len(frames[i].pass) :
                        frames[i].pass[j] = frames[i].defers[k].tag
              /\ raise' = frames[i].last
              /\ raise' # NoPanic]_vars

(* Two deferred calls, no recover() at all, the first deferred call run *)
(* panicked anew, and the frame has left with that second value.        *)
C21_ReraisedSecondPanic ==
    \E i \in 1..Len(frames) :
        /\ frames[i].via = "panic"
        /\ Len(frames[i].defers) = 2
        /\ Len(frames[i].pass) = 2
        /\ rlog.n = 0
        /\ hist.panics = 2
        /\ raise = frames[i].last
        /\ raise = targetPanic(37)


(* C22: once the Phis of the loop header have been executed, each holds the *)
(* value its edge for the predecessor fr.pred had when control entered the  *)
(* block, also when that edge is the other Phi of the block.                *)
PhisExecuted == phiEdges # <<>> /\ pfr.block = 1 /\ pfr.pc = 3

C22_PhisTakeValuesAtEntry ==
    PhisExecuted =>
        \A p \in PhiNames : pfr.reg[p] = pentry[phiEdges[p][PhiEdge(phiEdges[p], pfr)]]


(* C23: the frame allocFrame hands out, new or taken from the pool, has *)
(* pc = 0, block = the entry block, pred = 0, no deferred records and   *)
(* no panicking record.                                                 *)
HandedOut(g) ==
    /\ Len(PStack(g)) > 0
    /\ PTop(g).at \in {"get", "add", "store"}
    /\ gors'[g].stack[Len(PStack(g))].at = "run"

C23_HandedOutFrameIsReset ==
    [][\A g \in Goroutines :
          HandedOut(g) =>
              LET fr == pfrs'[gors'[g].stack[Len(PStack(g))].fr]
              IN /\ fr.pc = 0
                 /\ fr.block = 0
                 /\ fr.pred = 0
                 /\ fr.defers = <<>>
                 /\ ~fr.panicking]_vars

(* A frame of f that went to the pool after its Return, in its second *)
(* block and with a deferred record, has been handed out again.       *)
C23_ReusedFrameThatHeldDefers ==
    /\ plog.last.pooled
    /\ plog.last.before.cached
    /\ plog.last.before.pc = -1
    /\ plog.last.before.block = 1
    /\ plog.last.before.defers # <<>>
    /\ pfrs[plog.last.fr].st = "inuse"
    /\ pfrs[plog.last.fr].act = plog.last.a
    /\ pfrs[plog.last.fr].pc = 0
    /\ pfrs[plog.last.fr].defers = <<>>


(* C24 as stated, with the activations of a function ranked by the order *)
(* in which their allocFrame calls begin: none of the first callForPool  *)
(* activations takes its frame from the pool, and every activation that  *)
(* begins when the function's use count is already above callForPool     *)
(* takes its frame from the pool.                                        *)
C24_PoolExactlyAfterThreshold ==
    plog.last.fr # 0 =>
        /\ plog.last.n <= callForPool => ~plog.last.pooled
        /\ plog.last.u > callForPool => plog.last.pooled

(* C24 as it holds: none of the first callForPool activations takes its   *)
(* frame from the pool; an activation that found the cached flag not yet  *)
(* stored allocates a new frame even after more than callForPool calls,   *)
(* which one call in flight per other goroutine can do; every activation  *)
(* of a rank above callForPool + the number of goroutines takes its frame *)
(* from the pool.                                                         *)
C24_PoolAfterThresholdAndRacers ==
    plog.last.fr # 0 =>
        /\ plog.last.n <= callForPool => ~plog.last.pooled
        /\ plog.last.n > callForPool + Cardinality(Goroutines) => plog.last.pooled

(* A goroutine began allocFrame after the other had raised the use count *)
(* above callForPool and before it had stored the flag: it got a new     *)
(* frame after the flag was stored.                                      *)
C24_RacerGotNewFrame ==
    /\ plog.last.fr # 0
    /\ plog.last.n = callForPool + 2
    /\ plog.last.u = callForPool + 1
    /\ ~plog.last.pooled
    /\ fns[plog.last.fn].cached
    /\ fns[plog.last.fn].used = callForPool + 2


(* C25: a frame is the frame of at most one call path at a time.  Every    *)
(* frame held by an entry of some goroutine's call chain is in use by that *)
(* entry's activation alone and is not in a pool; a frame handed out was   *)
(* new or in the pool; deleteFrame puts a frame into the pool only after   *)
(* its Return (pc = -1) with the loop of runDefers past its last deferred  *)
(* record; and the call path reads fr.results while the frame is its own.  *)
Held == {<<g, i>> \in Goroutines \X (1..MaxPoolDepth + 1) :
            i <= Len(PStack(g)) /\ PStack(g)[i].fr # 0}
HeldEntry(x) == PStack(x[1])[x[2]]

C25_FrameHasOneActivation ==
    /\ \A x, y \in Held : HeldEntry(x).fr = HeldEntry(y).fr => x = y
    /\ \A x \in Held :
          /\ pfrs[HeldEntry(x).fr].st = "inuse"
          /\ pfrs[HeldEntry(x).fr].act = HeldEntry(x).a
          /\ \A fn \in FnNames : HeldEntry(x).fr \notin fns[fn].pool
    /\ \A fn \in FnNames : \A id \in fns[fn].pool : pfrs[id].st = "pooled"
    /\ plog.last.fr # 0 => plog.last.before.st \in {"new", "pooled"}
    /\ plog.put.pooled =>
          /\ plog.put.pc = -1
          /\ ~plog.put.panicking
          /\ plog.put.defers > 0 => plog.put.d > plog.put.defers
    /\ plog.read.fr # 0 => plog.read.st = "inuse" /\ plog.read.owner = plog.read.a

(* The frame deleteFrame put into the pool of k on goroutine 1 is now the *)
(* frame of the activation of k on goroutine 2, while main still runs.    *)
C25_FrameReusedOnOtherGoroutine ==
    /\ plog.put.pooled
    /\ plog.last.fr = plog.put.fr
    /\ plog.last.before.st = "pooled"
    /\ Len(PStack(2)) = 1 /\ PStack(2)[1].fr = plog.last.fr
    /\ Len(PStack(1)) = 1 /\ PStack(1)[1].at = "run"
    /\ pfrs[PStack(1)[1].fr].st = "inuse"


(* C27: a frame that allocFrame hands out for a call with no caller starts *)
(* with deferid 0 ...                                                      *)
NoCallerStartsWithoutDeferid ==
    \A g \in Goroutines :
        HandedOut(g) /\ PTop(g).caller = 0 =>
            pfrs'[gors'[g].stack[Len(PStack(g))].fr].deferid = 0

(* ... and the frame tryDeferFrame returns to a callback on g, when it *)
(* returns one, is the frame of an entry of g's call chain, in use by  *)
(* that entry's activation, which is in runDefers or below an entry    *)
(* that is in runDefers.                                               *)
CalledBack(g) ==
    /\ Len(PStack(g)) > 0
    /\ PTop(g).k = "nat"
    /\ Len(gors'[g].stack) = Len(PStack(g)) + 1

TryDeferFrameIsLive ==
    \A g \in Goroutines :
        CalledBack(g) =>
            LET fr == gors'[g].stack[Len(PStack(g)) + 1].caller
            IN fr # 0 =>
                  \E i \in 1..Len(PStack(g)) :
                      /\ PStack(g)[i].fr = fr
                      /\ pfrs[fr].st = "inuse"
                      /\ pfrs[fr].act = PStack(g)[i].a
                      /\ \E j \in 1..i : PStack(g)[j].at = "defers"

C27_TryDeferFrameReturnsLiveFrame ==
    [][NoCallerStartsWithoutDeferid /\ TryDeferFrameIsLive]_vars


(* C26: every call made at the call site goes to the method M of the  *)
(* dynamic type of the receiver it was made with, and the site panics *)
(* with "no code for method" only for a receiver that has no method.  *)
C26_DispatchToOwnReceiverType ==
    \A g \in Goroutines :
        /\ callers[g].recv # "" => callers[g].to = Method(callers[g].recv)
        /\ callers[g].pc = "panic" => callers[g].rtype = "X"


(* C28: a recover() executed with no calling frame, as the builtin that a *)
(* Go instruction starts with a nil caller, returns nil and raises no     *)
(* panic.                                                                 *)
C28_RecoverWithoutCallerReturnsNil ==
    plog.rec.n > 0 /\ plog.rec.caller = 0 => plog.rec.out = "nil"

----------------------------------------------------------------------------
(* C29: v, ok := x.(T) never panics: it yields (the value as type T, true) *)
(* when the dynamic type of x is T or assignable to T, and (the zero value *)
(* of T, false) otherwise, a nil interface x included.                     *)
ValueAs(typ, x) == IF Types[typ].iface THEN x ELSE Iface(typ, x.v)
ZeroValue(typ) == IF Types[typ].iface THEN NilIface ELSE Iface(typ, 0)

C29_CommaOkNeverPanics ==
    (nasserts > 0 /\ tassert.CommaOk)
        => /\ ~tassert.res.panics
           /\ IF ~tassert.x.nil /\ AssignableTo(tassert.x.typ, tassert.typ)
              THEN tassert.res.ok /\ tassert.res.v = ValueAs(tassert.typ, tassert.x)
              ELSE ~tassert.res.ok /\ tassert.res.v = ZeroValue(tassert.typ)

(* a comma-ok assertion of a nil interface has yielded (zero value, false) *)
C29_CommaOkOnNilInterface ==
    /\ nasserts > 0 /\ tassert.CommaOk /\ tassert.x.nil
    /\ tassert.typ = "MySlice"
    /\ tassert.res = [panics |-> FALSE, err |-> NoError,
                      v |-> Iface("MySlice", 0), ok |-> FALSE]

----------------------------------------------------------------------------
(* C30: the result of a select is the tuple (chosen, recvOk, r1..rk) with  *)
(* one ri per receive case in declaration order; chosen is the 0-based     *)
(* index of the selected case among the declared cases (the default not    *)
(* counted); the ri of a selected receive with recvOk holds the received   *)
(* value and every other ri holds the zero value of its channel's element  *)
(* type.                                                                   *)
RecvCases == {n \in DOMAIN sel.states : sel.states[n].dir = "recv"}
RecvRank(n) == Cardinality({j \in RecvCases : j <= n})
(* the declared case (1-based) reflect.Select selected, 0 for the default *)
SelectedCase == IF sel.blocking THEN sel.case ELSE sel.case - 1

C30_SelectResultTuple ==
    sel.status = "done"
        => /\ Len(sel.r) = 2 + Cardinality(RecvCases)
           /\ SelectedCase > 0 => sel.r[1] = SelectedCase - 1
           /\ sel.r[2] = sel.recvOk
           /\ \A n \in RecvCases :
                sel.r[2 + RecvRank(n)] =
                    IF n = SelectedCase /\ sel.recvOk THEN sel.recv ELSE 0

(* a select of two receive cases has received on the second one *)
C30_ReceivedOnSecondCase ==
    /\ sel.status = "done"
    /\ Len(sel.states) = 2 /\ RecvCases = {1, 2}
    /\ sel.r = <<1, TRUE, 0, 5>>

----------------------------------------------------------------------------
(* C31: a call to a function declared with n results leaves the caller's   *)
(* destination register untouched when n = 0, stores the callee's single   *)
(* result unwrapped when n = 1, and stores a tuple of exactly n values in  *)
(* declaration order when n > 1, for fresh and for pooled callee frames.   *)
DeclaredResults(fn, a) ==
    CASE fn = "f0" -> <<>>
      [] fn = "f1" -> <<a + 10>>
      [] fn = "f2" -> <<a + 20, a>>
      [] fn = "f3" -> <<a + 10, a, a + 20>>

C31_CallStoresDeclaredResults ==
    csite.phase = "set" =>
        LET res == DeclaredResults(csite.fn, csite.a)
        IN CASE Len(res) = 0 -> csite.dest = csite.before
             [] Len(res) = 1 -> csite.dest = [tuple |-> FALSE, vs |-> res]
             [] OTHER -> csite.dest = [tuple |-> TRUE, vs |-> res]

(* a call of the function with no results on a pooled frame, after the     *)
(* register held the tuple of an earlier call                              *)
C31_NoResultsOnPooledFrame ==
    /\ csite.phase = "set" /\ csite.pooled /\ csite.fn = "f0"
    /\ csite.dest = [tuple |-> TRUE, vs |-> <<12, 2, 22>>]

----------------------------------------------------------------------------
(* C32 (amended): an interface method call on a receiver whose type has a  *)
(* user-defined method set calls the method of that set, or else the user  *)
(* method found by reflection, and panics with "no code for method" when   *)
(* both fail; on a receiver whose type has no user-defined method set it   *)
(* calls the extern method of the native type (for a reflect.Type the      *)
(* function the interpreter keeps for Method) and panics when there is     *)
(* none. Stated for a call site run by one goroutine.                      *)
Alone(g) == \A h \in Goroutines \ {g} : callers[h].pc = "idle" /\ callers[h].n = 0
Resolved(g) == Alone(g) /\ callers[g].pc = "idle" /\ callers[g].n > 0
NoCodeForMethod(g) == Alone(g) /\ callers[g].pc = "panic"
ReflectFinds(typ) == typ # "X"

----------------------------------------------------------------------------
(* C33: a call to a function or method for which no code can be found is   *)
(* carried as a RuntimeError: it is reported as such at the top level of   *)
(* the run and is returned unchanged by a recover() in the target program. *)
NoCodeRaised == nocode.raised.kind # "none" /\ nocode.raised.kind # "targetPanic"

C33_NoCodeIsRuntimeError ==
    NoCodeRaised =>
        /\ IsRuntimeError(nocode.raised)
        /\ (nocode.phase = "done" /\ nocode.panicking # NoProgPanic) =>
              (nocode.err.kind = "runtime.Error" /\ nocode.err.of = nocode.raised)
        /\ nocode.recovered # NoProgPanic =>
              (~nocode.recoverPanicked /\ nocode.recovered = nocode.raised)

----------------------------------------------------------------------------
(* C34: for a value of a named type whose underlying type is a primitive   *)
(* integer or bool, the unary operators -, ^ and ! return the same result  *)
(* as on the underlying primitive value, carried in the same named type.   *)
OnPrimitive(op, x) ==
    CASE op = "SUB" -> [x EXCEPT !.v = Wrap(x.kind, -x.v)]
      [] op = "XOR" -> [x EXCEPT !.v = IF IntKinds[x.kind].signed THEN -x.v - 1
                                        ELSE 2 ^ IntKinds[x.kind].w - 1 - x.v]
      [] op = "NOT" -> [x EXCEPT !.b = ~x.b]

C34_UnopOnNamedTypes ==
    (nunops > 0 /\ unopd.x.named) => unopd.res = OnPrimitive(unopd.op, unopd.x)

----------------------------------------------------------------------------
(* C35: for every binary arithmetic, bitwise and shift operator and every  *)
(* pair of integer operands of one kind, the result computed on operands   *)
(* of a named type (reflection) equals the result computed on the          *)
(* underlying primitive operands (type switch), and both wrap modulo 2^w   *)
(* for the operand width w.                                                *)
InKind(kind, n) == IF kind = "int8" THEN n \in -128..127 ELSE n \in 0..255

C35_NamedEqualsPrimitiveAndWraps ==
    nbinops > 0 =>
        LET b == binopd
            onPrimitive == binop(b.op, b.kind, FALSE, b.x, b.y)
        IN /\ b.res.panics = onPrimitive.panics
           /\ b.res.v = onPrimitive.v
           /\ b.res.panics = "" =>
                /\ b.res.kind = b.kind /\ b.res.named = b.named
                /\ InKind(b.kind, b.res.v)
                /\ b.op \in {"ADD", "SUB", "MUL"} =>
                      (b.res.v - Arith(b.op, b.x, b.y)) % 256 = 0
                /\ (b.op = "SHL" /\ b.y < 16) =>
                      (b.res.v - b.x * 2 ^ b.y) % 256 = 0

(* a sum of two values of a named int8 type has wrapped *)
C35_NamedSumWrapped ==
    /\ nbinops > 0 /\ binopd.named /\ binopd.op = "ADD" /\ binopd.kind = "int8"
    /\ binopd.x = 127 /\ binopd.y = 9 /\ binopd.res.v = -120

----------------------------------------------------------------------------
(* C36: delete(m, k) on a map whose key type is a struct with blank fields *)
(* removes the entry whose key equals k when blank fields are ignored, so  *)
(* a lookup with any key of that class afterwards reports the key absent.  *)
(* Stated for a map that holds at most one entry per class.                *)
C36_DeleteRemovesEntryOfClass ==
    [][\A fn \in MapFuncs, k \in AllKeys :
          (/\ mkind = "blank"
           /\ \A a \in FieldVals : Cardinality(ClassEntries(a)) <= 1
           /\ Delete(fn, k))
              => \A vv \in AllKeys : equalStruct(k, vv) => m'[vv] = Absent]_vars

----------------------------------------------------------------------------
(* C37: a slice expression x[lo:hi] or x[lo:hi:max] on a string, slice,    *)
(* array or pointer to array succeeds exactly when                         *)
(* 0 <= lo <= hi <= max <= cap(x) (hi <= len(x) for a string); every       *)
(* violation panics with a RuntimeError carrying a "slice bounds out of    *)
(* range" message (a "makeslice" message in the make-slice context), and   *)
(* on success the result has length hi - lo.                               *)
SliceLo == IF sliced.lo.nil THEN 0 ELSE sliced.lo.v
SliceHi == IF sliced.hi.nil THEN sliced.x.Len ELSE sliced.hi.v
SliceMax == IF sliced.max.nil THEN sliced.x.Cap ELSE sliced.max.v
SliceInBounds ==
    0 <= SliceLo /\ SliceLo <= SliceHi /\ SliceHi <= SliceMax /\ SliceMax <= sliced.x.Cap

C37_SliceBoundsChecked ==
    (nslices > 0 /\ ~made.done) =>
        IF SliceInBounds
        THEN sliced.res.panics = "" /\ sliced.res.Len = SliceHi - SliceLo
        ELSE /\ sliced.res.panics = "runtimeError"
             /\ sliced.res.msg \in
                  IF sliced.x.alloc
                  THEN {"makeslice: len out of range", "makeslice: cap out of range"}
                  ELSE {"slice bounds out of range"}

----------------------------------------------------------------------------
(* C38: make([]T, len, cap) with a negative len, a negative cap, a len or  *)
(* cap at or above the memory limit, or len > cap panics with a            *)
(* RuntimeError "makeslice: len out of range" or "makeslice: cap out of    *)
(* range"; otherwise it yields a slice of length len and capacity cap.     *)
MakeInRange ==
    /\ 0 <= made.Len /\ made.Len < maxMemLen
    /\ 0 <= made.Cap /\ made.Cap < maxMemLen
    /\ made.Len <= made.Cap

C38_MakeSliceChecked ==
    made.done =>
        IF MakeInRange
        THEN made.res.panics = "" /\ made.res.Len = made.Len /\ made.res.Cap = made.Cap
        ELSE /\ made.res.panics = "runtimeError"
             /\ made.res.msg \in {"makeslice: len out of range",
                                  "makeslice: cap out of range"}

----------------------------------------------------------------------------
(* C39: while the program runs, the goroutine counter of the interpreter   *)
(* equals 1 plus the number of spawned goroutines that have started and    *)
(* not yet ended: each Go step increments it once and every goroutine that *)
(* ends, however it ends, decrements it once, so it never drops below 1.   *)
C39_CounterIsOnePlusLive ==
    ~died => /\ goroutines = 1 + Cardinality(Live)
             /\ goroutines >= 1

====
